---- MODULE Spec2Model ----
(***************************************************************************)
(* A model of the e-mail journaling service: the outbox dispatcher         *)
(* (internal/email/service.go), the reply interpreter and account          *)
(* lifecycle (internal/core/service.go) and the reply grammar              *)
(* (internal/core/parser.go, internal/core/preferences.go).                *)
(*                                                                         *)
(* Text is a sequence of one-character strings, so that the string and     *)
(* regular-expression operations of the code are computed, not assumed.    *)
(* A nullable column or pointer is <<>> (NULL / nil) or <<v>>.             *)
(***************************************************************************)
EXTENDS Integers, Sequences, FiniteSets, TLC

VARIABLES
    users,      \* the users table: a sequence of rows, id = index
    entries,    \* the entries table: a set of rows, unique on (user_id, entry_date)
    outbox,     \* the email_logs table: a sequence of rows, id = index
    now,        \* the wall clock, in hours since the epoch of the model
    last,       \* what the inbound/administrative call just returned
    runs,       \* each ProcessOutbox invocation: its position and row snapshot
    transport   \* what the external transport (SES) has been asked and answered

vars == <<users, entries, outbox, now, last, runs, transport>>

Null == <<>>
Some(v) == <<v>>

Min(a, b) == IF a <= b THEN a ELSE b

(***************************************************************************)
(* strings                                                                 *)
(***************************************************************************)
UpperLetters == <<"A","B","C","D","E","F","G","H","I","J","K","L","M",
                  "N","O","P","Q","R","S","T","U","V","W","X","Y","Z">>
LowerLetters == <<"a","b","c","d","e","f","g","h","i","j","k","l","m",
                  "n","o","p","q","r","s","t","u","v","w","x","y","z">>
Digits == <<"0","1","2","3","4","5","6","7","8","9">>

\* unicode.ToLower on one character
LowerChar(c) ==
    IF \E i \in 1..26 : UpperLetters[i] = c
    THEN LowerLetters[CHOOSE i \in 1..26 : UpperLetters[i] = c]
    ELSE c

\* strings.ToLower
ToLower(s) == [i \in 1..Len(s) |-> LowerChar(s[i])]

IsDigit(c) == \E i \in 1..10 : Digits[i] = c
DigitVal(c) == (CHOOSE i \in 1..10 : Digits[i] = c) - 1

\* unicode.IsSpace restricted to ASCII; also the class \s of the regexps
IsSpace(c) == c \in {" ", "\n", "\t", "\r", "\f"}
IsNewline(c) == c \in {"\n", "\r"}

\* p occurs in s at position i
HasAt(s, p, i) ==
    /\ i >= 1
    /\ i + Len(p) - 1 <= Len(s)
    /\ \A j \in 1..Len(p) : s[i + j - 1] = p[j]

\* strings.HasPrefix
HasPrefix(s, p) == HasAt(s, p, 1)

\* strings.Contains
StringsContains(s, p) == \E i \in 1..(Len(s) + 1) : HasAt(s, p, i)

\* strings.EqualFold (ASCII)
EqualFold(s, t) == ToLower(s) = ToLower(t)

\* strings.TrimSpace
TrimSpace(s) ==
    LET keep == {i \in 1..Len(s) : ~IsSpace(s[i])}
    IN  IF keep = {} THEN <<>>
        ELSE LET a == CHOOSE i \in keep : \A j \in keep : i <= j
                 b == CHOOSE i \in keep : \A j \in keep : i >= j
             IN  SubSeq(s, a, b)

\* the smallest element of a non-empty set of integers
MinOf(S) == CHOOSE x \in S : \A y \in S : x <= y

\* strings.Split(s, "\n")
RECURSIVE SplitLines(_)
SplitLines(s) ==
    LET nl == {i \in 1..Len(s) : s[i] = "\n"}
    IN  IF nl = {} THEN <<s>>
        ELSE LET k == MinOf(nl)
             IN  <<SubSeq(s, 1, k - 1)>> \o SplitLines(SubSeq(s, k + 1, Len(s)))

\* strings.Join(lines, "\n")
RECURSIVE JoinLines(_)
JoinLines(ls) ==
    IF Len(ls) = 0 THEN <<>>
    ELSE IF Len(ls) = 1 THEN ls[1]
    ELSE ls[1] \o <<"\n">> \o JoinLines(Tail(ls))

\* strconv.Atoi on a run of decimal digits
RECURSIVE Atoi(_)
Atoi(ds) ==
    IF Len(ds) = 0 THEN 0
    ELSE 10 * Atoi(SubSeq(ds, 1, Len(ds) - 1)) + DigitVal(ds[Len(ds)])

(***************************************************************************)
(* bounds of the model                                                     *)
(***************************************************************************)
MaxMsgs == 2        \* rows the outbox may hold
MaxNow == 1         \* the clock stops here
MaxSends == 2       \* transport calls per message that are followed
MaxMail == 2        \* messages the handlers may enqueue

(***************************************************************************)
(* models.go                                                               *)
(***************************************************************************)
EmailTypeVerification == "verification"
EmailTypeDailyPrompt == "daily_prompt"
EmailTypeWeeklySummary == "weekly_summary"
EmailTypeClarification == "clarification"

EmailStatusPending == "pending"
EmailStatusSent == "sent"
EmailStatusFailed == "failed"

\* LIMIT 10 of ProcessOutbox's query
BatchLimit == 10

(***************************************************************************)
(* the outbox: internal/email/service.go                                   *)
(***************************************************************************)

\* the row INSERT INTO email_logs makes; status, retry_count and the
\* timestamps take the column defaults
NewEmailLog(userID, recipientEmail, emailType, subject, body, scheduledAt) ==
    [ user_id         |-> userID,
      recipient_email |-> recipientEmail,
      email_type      |-> emailType,
      subject         |-> subject,
      body_text       |-> body,
      status          |-> EmailStatusPending,
      ses_message_id  |-> Null,
      error_message   |-> Null,
      retry_count     |-> 0,
      scheduled_at    |-> scheduledAt,
      sent_at         |-> Null,
      created_at      |-> now,
      updated_at      |-> now ]

\* an INSERT that stores no second row with the content of a row it holds
QueueEmailUnique(ob, dbOK, userID, recipientEmail, emailType, subject, body, scheduledAt) ==
    LET row == NewEmailLog(userID, recipientEmail, emailType, subject, body, scheduledAt)
    IN  IF dbOK /\ ~\E i \in 1..Len(ob) : ob[i] = row THEN Append(ob, row) ELSE ob

\* Service.QueueEmail: the outbox after the call; dbOK is whether the INSERT
\* succeeded (otherwise the call returns an error and nothing is stored)
QueueEmail(ob, dbOK, userID, recipientEmail, emailType, subject, body, scheduledAt) ==
    IF dbOK
    THEN Append(ob, NewEmailLog(userID, recipientEmail, emailType, subject, body, scheduledAt))
    ELSE ob

\* WHERE status = 'pending' AND (scheduled_at IS NULL OR scheduled_at <= NOW())
IsDue(row) ==
    /\ row.status = EmailStatusPending
    /\ (row.scheduled_at = Null \/ row.scheduled_at[1] <= now)

\* ORDER BY created_at ASC: every order of the rows ids in which no row comes
\* before one that was created earlier
RECURSIVE OrderedByCreation(_, _)
OrderedByCreation(ob, ids) ==
    IF ids = {} THEN {<<>>}
    ELSE LET oldest == {i \in ids : \A j \in ids : ob[i].created_at <= ob[j].created_at}
         IN  UNION {{<<i>> \o s : s \in OrderedByCreation(ob, ids \ {i})} : i \in oldest}

\* a query with a retry policy: it also returns the failed rows that were
\* attempted fewer than three times
SelectRetryable(ob) ==
    LET due == {i \in 1..Len(ob) :
                   \/ IsDue(ob[i])
                   \/ ob[i].status = EmailStatusFailed /\ ob[i].retry_count < 3}
        n == Cardinality(due)
        orders == {s \in [1..n -> due] :
                      /\ \A i, j \in 1..n : i # j => s[i] # s[j]
                      /\ \A i, j \in 1..n : i < j => ob[s[i]].created_at <= ob[s[j]].created_at}
    IN  {SubSeq(s, 1, Min(n, BatchLimit)) : s \in orders}

\* a query that applies its LIMIT before its WHERE: the rows that are pending
\* and due among the ten oldest, whatever has become of these
SelectPendingOfOldest(ob) ==
    LET due(i) == IsDue(ob[i])
    IN  {SelectSeq(SubSeq(s, 1, Min(Len(ob), BatchLimit)), due) :
            s \in OrderedByCreation(ob, 1..Len(ob))}

\* ORDER BY created_at ASC LIMIT 10: every result set the query may return
\* (rows with equal created_at come in either order)
SelectPending(ob) ==
    LET due == {i \in 1..Len(ob) : IsDue(ob[i])}
    IN  {SubSeq(s, 1, Min(Cardinality(due), BatchLimit)) : s \in OrderedByCreation(ob, due)}

\* an UPDATE that also clears the text of the message it marks as sent
markEmailSentRedacted(ob, emailID, messageID) ==
    [ob EXCEPT ![emailID].status = EmailStatusSent,
               ![emailID].ses_message_id = Some(messageID),
               ![emailID].body_text = <<>>,
               ![emailID].sent_at = Some(now),
               ![emailID].updated_at = now]

\* Service.markEmailSent's UPDATE ... WHERE id = $1
markEmailSentUpdate(ob, emailID, messageID) ==
    [ob EXCEPT ![emailID].status = EmailStatusSent,
               ![emailID].ses_message_id = Some(messageID),
               ![emailID].sent_at = Some(now),
               ![emailID].updated_at = now]

\* Service.markEmailFailed's UPDATE ... WHERE id = $1
markEmailFailedUpdate(ob, emailID, errorMsg) ==
    [ob EXCEPT ![emailID].status = EmailStatusFailed,
               ![emailID].error_message = Some(errorMsg),
               ![emailID].retry_count = @ + 1,
               ![emailID].updated_at = now]

\* the invocations of ProcessOutbox that may overlap: the scheduler's
\* five-minute job and the command line's "email process-outbox"
Runs == {"scheduler", "cli"}

IdleRun == [pc |-> "idle", rows |-> <<>>, attempted |-> {}, messageID |-> Null, err |-> Null]

NoTransport == [sends |-> [i \in 1..MaxMsgs |-> 0], accepted |-> {}]

\* a loop that returns at the first row whose delivery failed
NextRowUnlessFailed(run) ==
    [run EXCEPT !.rows = IF run.err # Null THEN <<>> ELSE Tail(@),
                !.pc = IF Len(run.rows) > 1 /\ run.err = Null THEN "send" ELSE "idle",
                !.attempted = @ \cup {Head(run.rows)},
                !.messageID = Null,
                !.err = Null]

\* the loop moves to the next row of the result set, or returns
NextRow(run) ==
    [run EXCEPT !.rows = Tail(@),
                !.pc = IF Len(run.rows) > 1 THEN "send" ELSE "idle",
                !.attempted = @ \cup {Head(run.rows)},
                !.messageID = Null,
                !.err = Null]

\* ProcessOutbox, lines 60-71: the SELECT of the pending rows
ProcessOutboxQuery(r) ==
    /\ runs[r].pc = "idle"
    /\ \/ \E rows \in SelectPending(outbox) :
             runs' = [runs EXCEPT ![r] = [IdleRun EXCEPT
                         !.rows = rows,
                         !.pc = IF Len(rows) > 0 THEN "send" ELSE "idle"]]
       \/ runs' = [runs EXCEPT ![r] = IdleRun]   \* the query failed
    /\ UNCHANGED <<users, entries, outbox, now, last, transport>>

\* sendEmail, lines 93-114: the call of the transport
sendEmail(r) ==
    /\ runs[r].pc = "send"
    /\ LET id == Head(runs[r].rows)
       IN  /\ transport.sends[id] < MaxSends
           /\ \/ /\ transport' = [sends |-> [transport.sends EXCEPT ![id] = @ + 1],
                                  accepted |-> transport.accepted \cup {id}]
                 /\ runs' = [runs EXCEPT ![r].pc = "markSent",
                                         ![r].messageID = Some(<<id, transport.sends[id] + 1>>)]
              \/ /\ transport' = [transport EXCEPT !.sends[id] = @ + 1]
                 /\ runs' = [runs EXCEPT ![r].pc = "markFailed",
                                         ![r].err = Some("failed to send email via SES")]
    /\ UNCHANGED <<users, entries, outbox, now, last>>

\* sendEmail line 116 and markEmailSent
markEmailSent(r) ==
    /\ runs[r].pc = "markSent"
    /\ LET id == Head(runs[r].rows)
       IN  \/ /\ outbox' = markEmailSentUpdate(outbox, id, runs[r].messageID[1])
              /\ runs' = [runs EXCEPT ![r] =
                            NextRow(@)]
           \/ /\ outbox' = outbox                  \* the UPDATE failed
              /\ runs' = [runs EXCEPT ![r].pc = "markFailed",
                                      ![r].err = Some("failed to mark email as sent")]
    /\ UNCHANGED <<users, entries, now, last, transport>>

\* ProcessOutbox lines 82-87 and markEmailFailed
markEmailFailed(r) ==
    /\ runs[r].pc = "markFailed"
    /\ LET id == Head(runs[r].rows)
       IN  \/ /\ outbox' = markEmailFailedUpdate(outbox, id, runs[r].err[1])
              /\ runs' = [runs EXCEPT ![r] =
                            NextRow(@)]
           \/ /\ outbox' = outbox                  \* the UPDATE failed, which is logged
              /\ runs' = [runs EXCEPT ![r] =
                            NextRow(@)]
    /\ UNCHANGED <<users, entries, now, last, transport>>

\* the arguments QueueEmail is called with in the dispatcher's specification
OutboxInputs ==
    { [user_id |-> Null, recipient |-> "ada@example.com", type |-> EmailTypeVerification,
       scheduled_at |-> Null],
      [user_id |-> Some(1), recipient |-> "ada@example.com", type |-> EmailTypeDailyPrompt,
       scheduled_at |-> Some(1)] }

\* a caller enqueues a message
Enqueue ==
    /\ Len(outbox) < MaxMsgs
    /\ \E in \in OutboxInputs, dbOK \in BOOLEAN :
          outbox' = QueueEmail(outbox, dbOK, in.user_id, in.recipient, in.type,
                               "s", <<"b">>, in.scheduled_at)
    /\ UNCHANGED <<users, entries, now, last, runs, transport>>

\* The clock counts the hours since 2024-01-01 00:00 UTC.  The instants at
\* which the behaviours of the model start: the start of the year; an hour
\* before midnight; 15:00 UTC on a day of winter, when no zone of the model
\* is on daylight-saving time, and 15:00 UTC on a day of summer, when the
\* zones that have it are.
YearStart == 0
LastHourOfDay == 23
WinterAfternoon == 14 * 24 + 15
SummerAfternoon == 196 * 24 + 15
ClockStarts == {YearStart, LastHourOfDay, WinterAfternoon, SummerAfternoon}

\* the hours since the behaviour started
Elapsed(t) == t - (CHOOSE s \in ClockStarts : s <= t /\ \A r \in ClockStarts : r <= t => r <= s)

\* time.Now().UTC().Hour()
UTCHour(t) == t % 24

\* the zone database time.LoadLocation reads: the offset from UTC in hours
\* and, for a zone with daylight-saving time, the hours of 2024 at which it
\* starts and ends (New York: 10 March 07:00 UTC to 3 November 06:00 UTC;
\* London: 31 March 01:00 UTC to 27 October 01:00 UTC)
ZoneDatabase ==
    << [name |-> <<"U","T","C">>, offset |-> 0, dst |-> FALSE, from |-> 0, to |-> 0],
       [name |-> <<"A","m","e","r","i","c","a","/","N","e","w","_","Y","o","r","k">>, offset |-> 0 - 5, dst |-> TRUE,
        from |-> 69 * 24 + 7, to |-> 307 * 24 + 6],
       [name |-> <<"E","u","r","o","p","e","/","L","o","n","d","o","n">>, offset |-> 0, dst |-> TRUE,
        from |-> 90 * 24 + 1, to |-> 300 * 24 + 1] >>

\* time.LoadLocation: the position of the zone in the database, 0 for an error
LoadLocation(tz) ==
    LET hit == {k \in 1..Len(ZoneDatabase) : ZoneDatabase[k].name = tz}
    IN  IF hit = {} THEN 0 ELSE MinOf(hit)

\* time.Now().In(loc).Hour()
LocalHour(loc, t) ==
    LET z == ZoneDatabase[loc]
        off == IF z.dst /\ z.from <= t /\ t < z.to THEN z.offset + 1 ELSE z.offset
    IN  (t + off) % 24

\* time passes
Tick ==
    /\ Elapsed(now) < MaxNow
    /\ now' = now + 1
    /\ UNCHANGED <<users, entries, outbox, last, runs, transport>>

InitOutbox ==
    /\ users = <<>>
    /\ entries = {}
    /\ outbox = <<>>
    /\ now = 0
    /\ last = [op |-> "none", err |-> "", log |-> ""]
    /\ runs = [r \in Runs |-> IdleRun]
    /\ transport = NoTransport

NextOutbox ==
    \/ Enqueue
    \/ Tick
    \/ \E r \in Runs : ProcessOutboxQuery(r)
    \/ \E r \in Runs : sendEmail(r)
    \/ \E r \in Runs : markEmailSent(r)
    \/ \E r \in Runs : markEmailFailed(r)

SpecOutbox == InitOutbox /\ [][NextOutbox]_vars

(***************************************************************************)
(* the reply grammar: internal/core/parser.go                              *)
(***************************************************************************)
CommandTypePause == "pause"
CommandTypeProject == "project"
CommandTypeEntry == "entry"

\* where the match of `<tag>([^<]+)</tag>` that starts at i ends, or 0
TagEnd(s, open, close, i) ==
    LET c == i + Len(open)
        lts == {j \in c..Len(s) : s[j] = "<"}
    IN  IF lts = {} THEN 0
        ELSE LET j == MinOf(lts)
             IN  IF j > c /\ HasAt(s, close, j) THEN j + Len(close) - 1 ELSE 0

\* regexp.FindAllStringSubmatch for `<tag>([^<]+)</tag>`: the matches from
\* position from on, leftmost first and not overlapping
RECURSIVE FindAllTag(_, _, _, _)
FindAllTag(s, open, close, from) ==
    LET starts == {i \in from..Len(s) : HasAt(s, open, i) /\ TagEnd(s, open, close, i) # 0}
    IN  IF starts = {} THEN <<>>
        ELSE LET i == MinOf(starts)
                 e == TagEnd(s, open, close, i)
             IN  <<[start |-> i, end |-> e,
                    group |-> SubSeq(s, i + Len(open), e - Len(close))]>>
                 \o FindAllTag(s, open, close, e + 1)

\* regexp.ReplaceAllString(s, "") for the same pattern
RECURSIVE RemoveAllTag(_, _, _)
RemoveAllTag(s, open, close) ==
    LET ms == FindAllTag(s, open, close, 1)
    IN  IF Len(ms) = 0 THEN s
        ELSE SubSeq(s, 1, ms[1].start - 1)
             \o RemoveAllTag(SubSeq(s, ms[1].end + 1, Len(s)), open, close)

pauseOpen == <<"<","p","a","u","s","e",">">>
pauseClose == <<"<","/","p","a","u","s","e",">">>
projectOpen == <<"<","p","r","o","j","e","c","t",">">>
projectClose == <<"<","/","p","r","o","j","e","c","t",">">>
entryOpen == <<"<","e","n","t","r","y",">">>
entryClose == <<"<","/","e","n","t","r","y",">">>

\* the units of `(\d+)\s*(day|days|week|weeks|month|months)` and their days
DurationUnits ==
    << [word |-> <<"d","a","y">>, days |-> 1],
       [word |-> <<"w","e","e","k">>, days |-> 7],
       [word |-> <<"m","o","n","t","h">>, days |-> 30] >>

\* the match of that pattern that starts at i: <<>> or <<[number, days]>>.
\* \d+ takes the whole run of digits, \s* the white space after it.
NumberUnitAt(s, i) ==
    IF ~(i <= Len(s) /\ IsDigit(s[i])) THEN Null
    ELSE LET nd == {k \in i..Len(s) : ~IsDigit(s[k])}
             dEnd == IF nd = {} THEN Len(s) ELSE MinOf(nd) - 1
             ns == {k \in (dEnd + 1)..Len(s) : ~IsSpace(s[k])}
             u == IF ns = {} THEN Len(s) + 1 ELSE MinOf(ns)
             hit == {k \in 1..Len(DurationUnits) : HasAt(s, DurationUnits[k].word, u)}
         IN  IF hit = {} THEN Null
             ELSE Some([number |-> Atoi(SubSeq(s, i, dEnd)),
                        days |-> DurationUnits[MinOf(hit)].days])

\* time.Duration is an int64 of nanoseconds and time.Hour is 3.6e12 of them,
\* 2^13 * 439453125: hours * time.Hour, wrapped to 64 bits, is 2^13 times the
\* 51 low bits of hours * 439453125, taken as a signed number.  Numbers of
\* that size are kept as four limbs to the base 2^15, the lowest first, the
\* fourth holding six bits.
HourOdd == 439453125
Limb == 32768

\* the 51 low bits of hours * HourOdd, for 0 <= hours < 2^31
WrappedLimbs(hours) ==
    LET h0 == hours % Limb
        h1 == (hours \div Limb) % Limb
        h2 == hours \div (Limb * Limb)
        c0 == HourOdd % Limb
        c1 == HourOdd \div Limb
        t0 == h0 * c0
        t1 == h0 * c1 + h1 * c0 + t0 \div Limb
        t2 == h1 * c1 + h2 * c0 + t1 \div Limb
        t3 == h2 * c1 + t2 \div Limb
    IN  <<t0 % Limb, t1 % Limb, t2 % Limb, t3 % 64>>

\* the sign bit of the int64
IsNegative(limbs) == limbs[4] >= 32

\* 2^51 - limbs: the magnitude of a negative value
Negated(limbs) ==
    LET t0 == (Limb - 1 - limbs[1]) + 1
        t1 == (Limb - 1 - limbs[2]) + t0 \div Limb
        t2 == (Limb - 1 - limbs[3]) + t1 \div Limb
        t3 == (63 - limbs[4]) + t2 \div Limb
    IN  <<t0 % Limb, t1 % Limb, t2 % Limb, t3 % 64>>

\* the bit k of limbs, k = 0 the lowest
BitOf(limbs, k) == (limbs[(k \div 15) + 1] \div (2 ^ (k % 15))) % 2

\* limbs divided by HourOdd, bit by bit from bit k down: the whole hours and
\* whether a part of an hour is left
RECURSIVE DivideByHour(_, _, _, _)
DivideByHour(limbs, k, quotient, remainder) ==
    IF k < 0 THEN [hours |-> quotient, part |-> remainder > 0]
    ELSE LET r == 2 * remainder + BitOf(limbs, k)
         IN  IF r >= HourOdd
             THEN DivideByHour(limbs, k - 1, 2 * quotient + 1, r - HourOdd)
             ELSE DivideByHour(limbs, k - 1, 2 * quotient, r)

\* time.Duration(number) * 24 * time.Hour for number * 24 = hours, in the
\* hours of the clock: the instant now + duration lies in the hour that
\* starts at now + DurationOfHours(hours)
DurationOfHours(hours) ==
    LET limbs == WrappedLimbs(hours)
    IN  IF IsNegative(limbs)
        THEN LET d == DivideByHour(Negated(limbs), 50, 0, 0)
             IN  0 - (d.hours + (IF d.part THEN 1 ELSE 0))
        ELSE DivideByHour(limbs, 50, 0, 0).hours

\* parsePauseDuration that takes every text for a day: the variant C9 is
\* tested against
parsePauseDurationAny(durationStr) == Some(24)

\* parsePauseDuration: <<>> on an error, else <<the duration in hours>>
parsePauseDuration(durationStr) ==
    LET s == ToLower(TrimSpace(durationStr))
        starts == {i \in 1..Len(s) : NumberUnitAt(s, i) # Null}
    IN  IF s \in {<<"t","o","d","a","y">>, <<"t","o","m","o","r","r","o","w">>} THEN Some(24)
        ELSE IF s \in {<<"t","h","i","s"," ","w","e","e","k">>, <<"1"," ","w","e","e","k">>, <<"n","e","x","t"," ","w","e","e","k">>} THEN Some(7 * 24)
        ELSE IF s \in {<<"t","h","i","s"," ","m","o","n","t","h">>, <<"1"," ","m","o","n","t","h">>, <<"n","e","x","t"," ","m","o","n","t","h">>} THEN Some(30 * 24)
        ELSE IF starts = {} THEN Null
        ELSE LET m == NumberUnitAt(s, MinOf(starts))[1]
             IN  Some(DurationOfHours(m.number * m.days * 24))

\* the prefixes of the lines cleanEmailContent drops
SignaturePrefixes ==
    {<<"-","-">>, <<"S","e","n","t"," ","f","r","o","m">>, <<"F","r","o","m",":">>, <<"T","o",":">>, <<"S","u","b","j","e","c","t",":">>, <<"D","a","t","e",":">>, <<">">>}

\* the loop of cleanEmailContent over the lines that are left
RECURSIVE CleanLines(_)
CleanLines(lines) ==
    IF Len(lines) = 0 THEN <<>>
    ELSE LET line == TrimSpace(lines[1])
         IN  IF line = <<>> THEN CleanLines(Tail(lines))
             ELSE IF \E p \in SignaturePrefixes : HasPrefix(line, p)
                  THEN CleanLines(Tail(lines))
             ELSE IF HasPrefix(line, <<"O","n"," ">>) /\ StringsContains(line, <<"w","r","o","t","e",":">>)
                  THEN <<>>
             ELSE <<line>> \o CleanLines(Tail(lines))

\* a cleaning that keeps every line
cleanEmailContentKeepAll(content) == content

cleanEmailContent(content) == JoinLines(CleanLines(SplitLines(content)))

\* the commands one pattern of ParseEmailReply adds, in the order of the matches
RECURSIVE ProjectCommands(_)
ProjectCommands(ms) ==
    IF Len(ms) = 0 THEN <<>>
    ELSE <<[Type |-> CommandTypeProject, Value |-> TrimSpace(ms[1].group), Duration |-> Null]>>
         \o ProjectCommands(Tail(ms))

RECURSIVE EntryCommands(_)
EntryCommands(ms) ==
    IF Len(ms) = 0 THEN <<>>
    ELSE <<[Type |-> CommandTypeEntry, Value |-> TrimSpace(ms[1].group), Duration |-> Null]>>
         \o EntryCommands(Tail(ms))

RECURSIVE PauseCommands(_)
PauseCommands(ms) ==
    IF Len(ms) = 0 THEN <<>>
    ELSE <<[Type |-> CommandTypePause, Value |-> ms[1].group,
            Duration |-> parsePauseDuration(ms[1].group)]>>
         \o PauseCommands(Tail(ms))

\* a parser that takes no text for an entry unless it is tagged, applied to a
\* reply without a tag
ParseEmailReplyTaggedOnly(rawContent) ==
    [Content |-> cleanEmailContent(TrimSpace(rawContent)), Commands |-> <<>>,
     ProjectTag |-> Null, IsValidated |-> FALSE]

\* a parser that lists the entry commands first and the pause commands last
ParseEmailReplyEntriesFirst(rawContent) ==
    LET content == cleanEmailContent(TrimSpace(rawContent))
        pauses == PauseCommands(FindAllTag(content, pauseOpen, pauseClose, 1))
        projects == ProjectCommands(FindAllTag(content, projectOpen, projectClose, 1))
        explicit == EntryCommands(FindAllTag(content, entryOpen, entryClose, 1))
        tagged == explicit \o projects \o pauses
        leftover == TrimSpace(RemoveAllTag(RemoveAllTag(RemoveAllTag(content,
                        pauseOpen, pauseClose), projectOpen, projectClose),
                        entryOpen, entryClose))
        commands == IF leftover # <<>> /\ Len(tagged) = 0
                    THEN <<[Type |-> CommandTypeEntry, Value |-> leftover, Duration |-> Null]>>
                    ELSE tagged
    IN  IF \E k \in 1..Len(pauses) : pauses[k].Duration = Null
        THEN [Content |-> content, Commands |-> <<>>,
              ProjectTag |-> Null, IsValidated |-> FALSE]
        ELSE [Content |-> leftover,
              Commands |-> commands,
              ProjectTag |-> IF Len(projects) = 0 THEN Null
                             ELSE Some(projects[Len(projects)].Value),
              IsValidated |-> ~(leftover = <<>> /\ Len(commands) = 0)]

\* ParseEmailReply
ParseEmailReply(rawContent) ==
    LET content == cleanEmailContent(TrimSpace(rawContent))
        pauses == PauseCommands(FindAllTag(content, pauseOpen, pauseClose, 1))
        projects == ProjectCommands(FindAllTag(content, projectOpen, projectClose, 1))
        explicit == EntryCommands(FindAllTag(content, entryOpen, entryClose, 1))
        tagged == pauses \o projects \o explicit
        leftover == TrimSpace(RemoveAllTag(RemoveAllTag(RemoveAllTag(content,
                        pauseOpen, pauseClose), projectOpen, projectClose),
                        entryOpen, entryClose))
        commands == IF leftover # <<>> /\ Len(tagged) = 0
                    THEN <<[Type |-> CommandTypeEntry, Value |-> leftover, Duration |-> Null]>>
                    ELSE tagged
    IN  IF \E k \in 1..Len(pauses) : pauses[k].Duration = Null
        THEN \* the first bad duration returns at once, with the pause
             \* commands before it and the content as cleaned
             LET bad == MinOf({k \in 1..Len(pauses) : pauses[k].Duration = Null})
             IN  [Content |-> content, Commands |-> SubSeq(pauses, 1, bad - 1),
                  ProjectTag |-> Null, IsValidated |-> FALSE]
        ELSE [Content |-> leftover,
              Commands |-> commands,
              ProjectTag |-> IF Len(projects) = 0 THEN Null
                             ELSE Some(projects[Len(projects)].Value),
              IsValidated |-> ~(leftover = <<>> /\ Len(commands) = 0)]

\* the vocabulary of NeedsVerification
verificationPatterns ==
    {<<"v","e","r","i","f","y">>, <<"v","e","r","i","f","i","c","a","t","i","o","n">>, <<"c","o","n","f","i","r","m">>, <<"c","o","n","f","i","r","m","a","t","i","o","n">>, <<"a","c","t","i","v","a","t","e">>,
     <<"a","c","t","i","v","a","t","i","o","n">>, <<"s","i","g","n"," ","u","p">>, <<"s","i","g","n","u","p">>, <<"s","t","a","r","t">>, <<"b","e","g","i","n">>}

\* every mail taken for a request to sign up
NeedsVerificationAlways(email) == TRUE

NeedsVerification(email) ==
    \E p \in verificationPatterns : StringsContains(ToLower(email), p)

(***************************************************************************)
(* the welcome-reply grammar: internal/core/preferences.go                 *)
(***************************************************************************)
\* (?i) literal at position i
HasAtFold(s, p, i) ==
    /\ i >= 1
    /\ i + Len(p) - 1 <= Len(s)
    /\ \A j \in 1..Len(p) : LowerChar(s[i + j - 1]) = p[j]

\* `:\s*([^\n\r]+)` with the colon at position c: <<>> or the captured group.
\* \s* is greedy and gives white space back until the group can start.
ValueAfterColon(s, c) ==
    LET ns == {k \in (c + 1)..Len(s) : ~IsSpace(s[k])}
        wsEnd == IF ns = {} THEN Len(s) ELSE MinOf(ns) - 1
        ok == {p \in (c + 1)..(wsEnd + 1) : p <= Len(s) /\ ~IsNewline(s[p])}
    IN  IF ok = {} THEN Null
        ELSE LET p == CHOOSE x \in ok : \A y \in ok : x >= y
                 nl == {k \in p..Len(s) : IsNewline(s[k])}
                 e == IF nl = {} THEN Len(s) ELSE MinOf(nl) - 1
             IN  Some(SubSeq(s, p, e))

\* the match of `(?i)(?:w1|w2)[^:]*:\s*([^\n\r]+)` that starts at i (gap), or
\* of `(?i)w:\s*([^\n\r]+)` (no gap, the word ends in its colon)
LabelAt(s, words, gap, i) ==
    LET hit == {w \in words : HasAtFold(s, w, i)}
    IN  IF hit = {} THEN Null
        ELSE LET w == CHOOSE x \in hit : TRUE
                 after == i + Len(w)
                 colons == {k \in after..Len(s) : s[k] = ":"}
             IN  IF ~gap THEN ValueAfterColon(s, after - 1)
                 ELSE IF colons = {} THEN Null
                 ELSE ValueAfterColon(s, MinOf(colons))

\* regexp.FindStringSubmatch: the group of the leftmost match, or <<>>
FindLabel(s, words, gap) ==
    LET starts == {i \in 1..Len(s) : LabelAt(s, words, gap, i) # Null}
    IN  IF starts = {} THEN Null ELSE LabelAt(s, words, gap, MinOf(starts))

\* getnum of package time: one or two digits (two when fixed); <<>> on an
\* error, else <<[n, rest]>>
getnum(v, fixed) ==
    IF ~(Len(v) >= 1 /\ IsDigit(v[1])) THEN Null
    ELSE IF ~(Len(v) >= 2 /\ IsDigit(v[2]))
         THEN IF fixed THEN Null
              ELSE Some([n |-> DigitVal(v[1]), rest |-> Tail(v)])
    ELSE Some([n |-> 10 * DigitVal(v[1]) + DigitVal(v[2]), rest |-> SubSeq(v, 3, Len(v))])

\* skip of package time for the literal ":"
skipColon(v) == IF Len(v) >= 1 /\ v[1] = ":" THEN Some(Tail(v)) ELSE Null

\* skip of package time for the literal " ": nothing left, or a run of spaces
skipSpace(v) ==
    IF Len(v) = 0 THEN Some(v)
    ELSE IF v[1] # " " THEN Null
    ELSE LET ns == {k \in 1..Len(v) : v[k] # " "}
         IN  Some(IF ns = {} THEN <<>> ELSE SubSeq(v, MinOf(ns), Len(v)))

\* the element PM of a layout: <<>> or <<[pm, rest]>>
stdPM(v) ==
    IF Len(v) < 2 THEN Null
    ELSE IF SubSeq(v, 1, 2) = <<"P","M">> THEN Some([pm |-> TRUE, rest |-> SubSeq(v, 3, Len(v))])
    ELSE IF SubSeq(v, 1, 2) = <<"A","M">> THEN Some([pm |-> FALSE, rest |-> SubSeq(v, 3, Len(v))])
    ELSE Null

\* the hour of a 12-hour clock reading
Hour12(h, pm) ==
    IF pm /\ h < 12 THEN h + 12
    ELSE IF ~pm /\ h = 12 THEN 0
    ELSE h

\* the layouts of parseTimeString, as the elements time.Parse reads in turn
timeFormats ==
    << <<"15", ":", "04">>,
       <<"3", ":", "04", " ", "PM">>,
       <<"3", ":", "04", "PM">>,
       <<"3", " ", "PM">>,
       <<"3", "PM">>,
       <<"15">> >>

\* time.Parse: st is <<>> after an error, else <<[h, m, ap, rest]>> where ap
\* is "" until PM or AM has been read
RECURSIVE ParseLayout(_, _)
ParseLayout(layout, st) ==
    IF st = Null THEN Null
    ELSE IF Len(layout) = 0
         THEN IF Len(st[1].rest) # 0 THEN Null    \* extra text
              ELSE Some(60 * (IF st[1].ap = "" THEN st[1].h
                              ELSE Hour12(st[1].h, st[1].ap = "PM")) + st[1].m)
    ELSE LET e == layout[1]
             cur == st[1]
             v == cur.rest
             next ==
                 CASE e = "15" ->
                        LET g == getnum(v, FALSE)
                        IN  IF g = Null \/ g[1].n >= 24 THEN Null
                            ELSE Some([cur EXCEPT !.h = g[1].n, !.rest = g[1].rest])
                   [] e = "3" ->
                        LET g == getnum(v, FALSE)
                        IN  IF g = Null \/ g[1].n > 12 THEN Null
                            ELSE Some([cur EXCEPT !.h = g[1].n, !.rest = g[1].rest])
                   [] e = "04" ->
                        LET g == getnum(v, TRUE)
                        IN  IF g = Null \/ g[1].n >= 60 THEN Null
                            ELSE Some([cur EXCEPT !.m = g[1].n, !.rest = g[1].rest])
                   [] e = ":" ->
                        LET g == skipColon(v)
                        IN  IF g = Null THEN Null ELSE Some([cur EXCEPT !.rest = g[1]])
                   [] e = " " ->
                        LET g == skipSpace(v)
                        IN  IF g = Null THEN Null ELSE Some([cur EXCEPT !.rest = g[1]])
                   [] e = "PM" ->
                        LET g == stdPM(v)
                        IN  IF g = Null THEN Null
                            ELSE Some([cur EXCEPT !.ap = IF g[1].pm THEN "PM" ELSE "AM",
                                                  !.rest = g[1].rest])
         IN  ParseLayout(Tail(layout), next)

\* parseTimeString: <<>> on an error, else <<minutes after midnight>>
parseTimeString(timeStr) ==
    LET t == TrimSpace(timeStr)
        ok == {k \in 1..Len(timeFormats) :
                  ParseLayout(timeFormats[k], Some([h |-> 0, m |-> 0, ap |-> "", rest |-> t])) # Null}
    IN  IF ok = {} THEN Null
        ELSE ParseLayout(timeFormats[MinOf(ok)], Some([h |-> 0, m |-> 0, ap |-> "", rest |-> t]))

validTimezones ==
    {<<"U","T","C">>, <<"G","M","T">>,
     <<"A","m","e","r","i","c","a","/","N","e","w","_","Y","o","r","k">>, <<"A","m","e","r","i","c","a","/","C","h","i","c","a","g","o">>, <<"A","m","e","r","i","c","a","/","D","e","n","v","e","r">>, <<"A","m","e","r","i","c","a","/","L","o","s","_","A","n","g","e","l","e","s">>,
     <<"A","m","e","r","i","c","a","/","T","o","r","o","n","t","o">>, <<"A","m","e","r","i","c","a","/","V","a","n","c","o","u","v","e","r">>, <<"A","m","e","r","i","c","a","/","M","o","n","t","r","e","a","l">>,
     <<"E","u","r","o","p","e","/","L","o","n","d","o","n">>, <<"E","u","r","o","p","e","/","P","a","r","i","s">>, <<"E","u","r","o","p","e","/","B","e","r","l","i","n">>, <<"E","u","r","o","p","e","/","R","o","m","e">>, <<"E","u","r","o","p","e","/","M","a","d","r","i","d">>,
     <<"A","s","i","a","/","T","o","k","y","o">>, <<"A","s","i","a","/","S","h","a","n","g","h","a","i">>, <<"A","s","i","a","/","K","o","l","k","a","t","a">>, <<"A","s","i","a","/","D","u","b","a","i">>,
     <<"A","u","s","t","r","a","l","i","a","/","S","y","d","n","e","y">>, <<"A","u","s","t","r","a","l","i","a","/","M","e","l","b","o","u","r","n","e">>,
     <<"P","a","c","i","f","i","c","/","A","u","c","k","l","a","n","d">>}

\* the names time.LoadLocation resolves beyond the list: "", "UTC", "Local"
\* always, and what the zone database of the host holds
LoadableLocations == {<<>>, <<"U","T","C">>, <<"L","o","c","a","l">>, <<"E","u","r","o","p","e","/","A","m","s","t","e","r","d","a","m">>} \cup validTimezones

\* isValidTimezone without the validation: the variant C7 is tested against
isValidTimezoneAny(tz) == TRUE

isValidTimezone(tz) ==
    \/ \E valid \in validTimezones : EqualFold(tz, valid)
    \/ tz \in LoadableLocations

\* the answers parseUserPreferences takes for "not filled in"
Placeholders == {<<>>, <<"_">>, <<"_","_","_","_","_","_","_","_","_","_","_">>}

DefaultPromptTime == 16 * 60

nameWords == {<<"n","a","m","e",":">>}
timezoneWords == {<<"t","i","m","e","z","o","n","e">>}
timeWords == {<<"t","i","m","e">>, <<"p","r","o","m","p","t">>}
projectWords == {<<"p","r","o","j","e","c","t">>, <<"f","o","c","u","s">>}

\* parseUserPreferences: [err |-> "..."] or the preferences with err = ""
parseUserPreferences(body) ==
    LET nameM == FindLabel(body, nameWords, FALSE)
        tzM == FindLabel(body, timezoneWords, TRUE)
        timeM == FindLabel(body, timeWords, TRUE)
        projM == FindLabel(body, projectWords, TRUE)
        Name == IF nameM = Null THEN <<>> ELSE TrimSpace(nameM[1])
        Timezone == IF tzM = Null THEN <<>> ELSE TrimSpace(tzM[1])
        parsedTime == IF timeM = Null THEN Null ELSE parseTimeString(TrimSpace(timeM[1]))
        projectName == IF projM = Null THEN <<>> ELSE TrimSpace(projM[1])
        none == [Name |-> <<>>, Timezone |-> <<>>, PromptTime |-> 0, ProjectFocus |-> Null]
    IN  IF timeM # Null /\ parsedTime = Null
            THEN [err |-> "invalid time format", prefs |-> none]
        ELSE IF Name \in Placeholders
            THEN [err |-> "name is required", prefs |-> none]
        ELSE IF Timezone \in Placeholders
            THEN [err |-> "timezone is required", prefs |-> none]
        ELSE IF ~isValidTimezone(Timezone)
            THEN [err |-> "invalid timezone", prefs |-> none]
        ELSE [err |-> "",
              prefs |-> [Name |-> Name,
                         Timezone |-> Timezone,
                         PromptTime |-> IF parsedTime = Null THEN DefaultPromptTime
                                        ELSE parsedTime[1],
                         ProjectFocus |-> IF projectName \in Placeholders THEN Null
                                          ELSE Some(projectName)]]

(***************************************************************************)
(* accounts and replies: internal/core/service.go                          *)
(***************************************************************************)
\* contains without the search: the variant C5 is tested against
containsAnything(text, substr) == Len(text) > 0 /\ Len(substr) > 0

\* strings.Contains over lower-cased text, both non-empty
contains(text, substr) ==
    /\ Len(text) > 0
    /\ Len(substr) > 0
    /\ StringsContains(ToLower(text), ToLower(substr))

\* values GenerateVerificationCode may return
Codes == {<<"1","2","3","4","5","6">>, <<"6","5","4","3","2","1">>}

\* SELECT ... FROM users WHERE email = $1: the id of the row, 0 for no row
GetUserByEmail(us, email) ==
    LET ids == {i \in 1..Len(us) : us[i].email = email}
    IN  IF ids = {} THEN 0 ELSE MinOf(ids)

\* the row createPendingUser inserts; the other columns take their defaults
createPendingUser(us, email, verificationCode) ==
    Append(us, [ email             |-> email,
                 name              |-> <<"N","e","w"," ","U","s","e","r">>,
                 timezone          |-> <<"U","T","C">>,
                 prompt_time       |-> DefaultPromptTime,
                 verification_code |-> Some(verificationCode),
                 is_verified       |-> FALSE,
                 is_paused         |-> FALSE,
                 pause_until       |-> Null,
                 project_focus     |-> Null,
                 updated_at        |-> now ])

updateUserVerificationCode(us, userID, verificationCode) ==
    [us EXCEPT ![userID].verification_code = Some(verificationCode),
               ![userID].updated_at = now]

verifyUser(us, userID, prefs) ==
    [us EXCEPT ![userID].name = prefs.Name,
               ![userID].timezone = prefs.Timezone,
               ![userID].prompt_time = prefs.PromptTime,
               ![userID].project_focus = prefs.ProjectFocus,
               ![userID].is_verified = TRUE,
               ![userID].verification_code = Null,
               ![userID].updated_at = now]

\* a pause that ends the duration after the start of the clock, not after
\* the time of processing
pauseUserFromEpoch(us, userID, duration) ==
    [us EXCEPT ![userID].is_paused = TRUE,
               ![userID].pause_until = Some(duration),
               ![userID].updated_at = now]

\* duration is in hours, as the clock is
pauseUser(us, userID, duration) ==
    [us EXCEPT ![userID].is_paused = TRUE,
               ![userID].pause_until = Some(now + duration),
               ![userID].updated_at = now]

updateUserProject(us, userID, projectName) ==
    [us EXCEPT ![userID].project_focus = Some(projectName),
               ![userID].updated_at = now]

\* time.Now().UTC().Format("2006-01-02"): the day the clock is in
Today == now \div 24

\* the row an INSERT INTO entries adds
NewEntry(userID, content, projectTag) ==
    [ user_id        |-> userID,
      entry_date     |-> Today,
      raw_content    |-> content,
      parsed_content |-> content,
      project_tag    |-> projectTag,
      created_at     |-> now,
      updated_at     |-> now ]

\* an INSERT INTO entries with no ON CONFLICT clause on a table with no
\* unique index
saveEntryAdditive(es, userID, content, projectTag) ==
    es \cup {NewEntry(userID, content, projectTag)}

\* INSERT INTO entries ... ON CONFLICT (user_id, entry_date) DO UPDATE
saveEntry(es, userID, content, projectTag) ==
    LET old == {e \in es : e.user_id = userID /\ e.entry_date = Today}
    IN  IF old = {}
        THEN es \cup {NewEntry(userID, content, projectTag)}
        ELSE (es \ old) \cup {[e EXCEPT !.raw_content = content,
                                        !.parsed_content = content,
                                        !.project_tag = projectTag,
                                        !.updated_at = now] : e \in old}

\* what the templates render: the subject of the code, and the body as the
\* template with its data.  A template that fails to render makes the caller
\* return an error with nothing stored, as a failed INSERT does; dbOK = FALSE
\* below stands for both.
RenderWelcomeEmail(verificationCode) ==
    [subject |-> "Welcome to What Did You Get Done This Week?",
     body |-> <<"welcome", verificationCode>>]

RenderClarificationEmail(originalMessage) ==
    [subject |-> "Clarification needed for your journal entry",
     body |-> <<"clarification", originalMessage>>]

SendWelcomeEmail(ob, dbOK, recipientEmail, verificationCode) ==
    LET r == RenderWelcomeEmail(verificationCode)
    IN  QueueEmail(ob, dbOK, Null, recipientEmail, EmailTypeVerification,
                   r.subject, r.body, Null)

\* a clarification enqueued twice
SendClarificationRequestTwice(ob, dbOK, userID, recipientEmail, originalMessage) ==
    LET r == RenderClarificationEmail(originalMessage)
        once == QueueEmail(ob, dbOK, Some(userID), recipientEmail, EmailTypeClarification,
                           r.subject, r.body, Null)
    IN  QueueEmail(once, dbOK, Some(userID), recipientEmail, EmailTypeClarification,
                   r.subject, r.body, Null)

SendClarificationRequest(ob, dbOK, userID, recipientEmail, originalMessage) ==
    LET r == RenderClarificationEmail(originalMessage)
    IN  QueueEmail(ob, dbOK, Some(userID), recipientEmail, EmailTypeClarification,
                   r.subject, r.body, Null)

\* what a handler leaves behind: the tables, the error it returns ("" = nil)
\* and the line it logged about the reply
Outcome(us, es, ob, err) ==
    [users |-> us, entries |-> es, outbox |-> ob, err |-> err, log |-> ""]

Logged(out, msg) == [out EXCEPT !.log = msg]

\* the error QueueEmail returns
QueueErr(dbOK) == IF dbOK THEN "" ELSE "failed to queue email"

\* a signup that does not look at is_verified: it issues a new code to any
\* account it finds
SignupOutcomeReissuing(emailAddr, verificationCode, readOK, writeOK, queueOK) ==
    LET existingUser == GetUserByEmail(users, emailAddr)
    IN  IF ~readOK
            THEN Outcome(users, entries, outbox, "failed to check existing user")
        ELSE IF ~writeOK
            THEN Outcome(users, entries, outbox, "failed to create/update user")
        ELSE Outcome(IF existingUser # 0
                        THEN updateUserVerificationCode(users, existingUser, verificationCode)
                        ELSE createPendingUser(users, emailAddr, verificationCode),
                     entries,
                     SendWelcomeEmail(outbox, queueOK, emailAddr, verificationCode),
                     QueueErr(queueOK))

\* Service.HandleSignupRequest.  readOK, writeOK and queueOK say whether the
\* SELECT, the INSERT/UPDATE of the user and the INSERT of the message succeed.
SignupOutcome(emailAddr, verificationCode, readOK, writeOK, queueOK) ==
    LET existingUser == GetUserByEmail(users, emailAddr)
    IN  IF ~readOK
            THEN Outcome(users, entries, outbox, "failed to check existing user")
        ELSE IF existingUser # 0 /\ users[existingUser].is_verified
            THEN Outcome(users, entries, outbox, "user already exists and is verified")
        ELSE IF ~writeOK
            THEN Outcome(users, entries, outbox, "failed to create/update user")
        ELSE Outcome(IF existingUser # 0
                        THEN updateUserVerificationCode(users, existingUser, verificationCode)
                        ELSE createPendingUser(users, emailAddr, verificationCode),
                     entries,
                     SendWelcomeEmail(outbox, queueOK, emailAddr, verificationCode),
                     QueueErr(queueOK))

ClarifyMissingCode == <<"P","l","e","a","s","e"," ","i","n","c","l","u","d","e"," ","y","o","u","r"," ","v","e","r","i","f","i","c","a","t","i","o","n"," ","c","o","d","e"," ","i","n"," ","y","o","u","r"," ","r","e","p","l","y">>
ClarifyPreferences ==
    <<"P","l","e","a","s","e"," ","p","r","o","v","i","d","e"," ","y","o","u","r"," ","p","r","e","f","e","r","e","n","c","e","s"," ","i","n"," ","t","h","e"," ","f","o","r","m","a","t"," ","s","h","o","w","n"," ","i","n"," ","t","h","e"," ","w","e","l","c","o","m","e"," ","e","m","a","i","l">>

\* Service.handleVerificationReply.  hasCode[c] is contains(body, c) and prefs
\* is parseUserPreferences(body).
VerificationOutcome(userID, hasCode, prefs, writeOK, queueOK) ==
    LET user == users[userID]
    IN  IF user.verification_code = Null
            THEN Outcome(users, entries, outbox, "no verification code set for user")
        ELSE IF ~hasCode[user.verification_code[1]]
            THEN Outcome(users, entries,
                         SendClarificationRequest(outbox, queueOK, userID, user.email,
                                                  ClarifyMissingCode),
                         QueueErr(queueOK))
        ELSE IF prefs.err # ""
            THEN Outcome(users, entries,
                         SendClarificationRequest(outbox, queueOK, userID, user.email,
                                                  ClarifyPreferences),
                         QueueErr(queueOK))
        ELSE IF ~writeOK
            THEN Outcome(users, entries, outbox, "verifyUser failed")
        ELSE Outcome(verifyUser(users, userID, prefs.prefs), entries, outbox, "")

\* the loop of HandleEmailReply over the commands: failAt is the position of
\* the command whose statement fails, 0 when none does.  The statements are
\* executed one by one, each committed on its own.
RECURSIVE ProcessCommands(_, _, _, _, _, _)
ProcessCommands(us, es, userID, cmds, projectTag, failAt) ==
    IF Len(cmds) = 0 THEN [users |-> us, entries |-> es, failed |-> FALSE]
    ELSE IF failAt = 1 THEN [users |-> us, entries |-> es, failed |-> TRUE]
    ELSE LET cmd == cmds[1]
             us1 == IF cmd.Type = CommandTypePause
                        THEN pauseUser(us, userID, cmd.Duration[1])
                    ELSE IF cmd.Type = CommandTypeProject
                        THEN updateUserProject(us, userID, cmd.Value)
                    ELSE us
             es1 == IF cmd.Type = CommandTypeEntry
                        THEN saveEntry(es, userID, cmd.Value, projectTag)
                    ELSE es
         IN  ProcessCommands(us1, es1, userID, Tail(cmds), projectTag,
                             IF failAt = 0 THEN 0 ELSE failAt - 1)

\* Service.HandleEmailReply for a verified account.  parsed is
\* ParseEmailReply(body).
ActiveOutcome(userID, body, parsed, failAt, queueOK) ==
    LET user == users[userID]
        done == ProcessCommands(users, entries, userID, parsed.Commands,
                                parsed.ProjectTag, failAt)
    IN  IF ~parsed.IsValidated
            THEN Logged(Outcome(users, entries,
                            SendClarificationRequest(outbox, queueOK, userID, user.email, body),
                            QueueErr(queueOK)),
                        "Failed to parse email reply")
        ELSE IF done.failed
            THEN Logged(Outcome(done.users, done.entries,
                            SendClarificationRequest(outbox, queueOK, userID, user.email, body),
                            QueueErr(queueOK)),
                        "Failed to process command")
        ELSE Logged(Outcome(done.users, done.entries, outbox, ""),
                    "Successfully processed email reply")

(***************************************************************************)
(* the inbound mail the model delivers                                     *)
(***************************************************************************)
EntryReply == <<"S","h","i","p","p","e","d"," ","t","h","e"," ","n","e","w"," ","p","a","r","s","e","r"," ","t","o","d","a","y",".">>
PauseReply == <<"<","p","a","u","s","e",">","2"," ","w","e","e","k","s","<","/","p","a","u","s","e",">">>
BadPauseReply == <<"<","p","a","u","s","e",">","s","o","m","e","d","a","y","<","/","p","a","u","s","e",">","<","p","r","o","j","e","c","t",">","i","n","f","r","a","<","/","p","r","o","j","e","c","t",">","<","e","n","t","r","y",">","D","i","d"," ","i","t","<","/","e","n","t","r","y",">">>
ProjectEntryReply == <<"<","p","r","o","j","e","c","t",">","o","p","s","<","/","p","r","o","j","e","c","t",">","<","e","n","t","r","y",">","D","i","d"," ","i","t","<","/","e","n","t","r","y",">">>
QuotedOnlyReply == <<">"," ","S","h","i","p","p","e","d"," ","i","t","\n","O","n"," ","M","o","n","d","a","y",","," ","B","o","b"," ","w","r","o","t","e",":","\n","h","e","l","l","o">>
EmptyReply == <<>>
SignupMail == <<"P","l","e","a","s","e"," ","s","t","a","r","t"," ","m","y"," ","j","o","u","r","n","a","l">>
\* a reply that is a footer and quoted header lines, and nothing else
FooterOnlyReply == <<"S","e","n","t"," ","f","r","o","m"," ","m","y"," ","p","h","o","n","e","\n","F","r","o","m",":"," ","b","o","b","@","e","x","a","m","p","l","e",".","c","o","m","\n","T","o",":"," ","a","d","a","@","e","x","a","m","p","l","e",".","c","o","m","\n","S","u","b","j","e","c","t",":"," ","R","e",":"," ","T","o","d","a","y","\n","D","a","t","e",":"," ","M","o","n","d","a","y">>
\* a mail whose subject asks to start and whose body holds no keyword
SubjectOnlyMail == <<"H","e","l","l","o"," ","t","h","e","r","e">>
WelcomeReplyScenario == <<"1","2","3","4","5","6","\n","N","a","m","e",":"," ","A","d","a","\n","T","i","m","e","z","o","n","e",":"," ","A","m","e","r","i","c","a","/","N","e","w","_","Y","o","r","k","\n","T","i","m","e",":"," ","9",":","0","0"," ","A","M">>
WelcomeReplyTimeFirst == <<"1","2","3","4","5","6","\n","N","a","m","e",":"," ","A","d","a","\n","T","i","m","e",":"," ","9",":","0","0"," ","A","M","\n","T","i","m","e","z","o","n","e",":"," ","A","m","e","r","i","c","a","/","N","e","w","_","Y","o","r","k","\n","P","r","o","j","e","c","t",":"," ","i","n","f","r","a">>
WelcomeReplyNoCode == <<"N","a","m","e",":"," ","A","d","a","\n","T","i","m","e",":"," ","9",":","0","0"," ","A","M","\n","T","i","m","e","z","o","n","e",":"," ","U","T","C">>
WelcomeReplyPlaceholder == <<"1","2","3","4","5","6","\n","N","a","m","e",":"," ","_","_","_","_","_","_","_","_","_","_","_","\n","T","i","m","e",":"," ","1","6",":","0","0","\n","T","i","m","e","z","o","n","e",":"," ","U","T","C">>
WelcomeReplyBadZone == <<"1","2","3","4","5","6","\n","N","a","m","e",":"," ","A","d","a","\n","T","i","m","e",":"," ","1","6",":","0","0","\n","T","i","m","e","z","o","n","e",":"," ","M","a","r","s","/","O","l","y","m","p","u","s">>
WelcomeReplyBadTime == <<"1","2","3","4","5","6","\n","N","a","m","e",":"," ","A","d","a","\n","T","i","m","e",":"," ","n","o","o","n","\n","T","i","m","e","z","o","n","e",":"," ","U","T","C">>
\* a reply whose tags come as entry, project, entry, pause
MixedOrderReply == <<"<","e","n","t","r","y",">","F","i","r","s","t","<","/","e","n","t","r","y",">","\n","<","p","r","o","j","e","c","t",">","o","p","s","<","/","p","r","o","j","e","c","t",">","\n","<","e","n","t","r","y",">","S","e","c","o","n","d","<","/","e","n","t","r","y",">","\n","<","p","a","u","s","e",">","1"," ","w","e","e","k","<","/","p","a","u","s","e",">">>
\* pauses of no day and of 200000 days
ZeroPauseReply == <<"<","p","a","u","s","e",">","0"," ","d","a","y","s","<","/","p","a","u","s","e",">">>
LongPauseReply == <<"<","p","a","u","s","e",">","2","0","0","0","0","0"," ","d","a","y","s","<","/","p","a","u","s","e",">">>
WelcomeReplyNoZone == <<"1","2","3","4","5","6","\n","N","a","m","e",":"," ","A","d","a","\n","T","i","m","e",":"," ","1","6",":","0","0">>

Bodies ==
    << EntryReply, PauseReply, BadPauseReply, ProjectEntryReply, QuotedOnlyReply,
       EmptyReply, SignupMail, SubjectOnlyMail, WelcomeReplyScenario, WelcomeReplyTimeFirst,
       WelcomeReplyNoCode, WelcomeReplyPlaceholder, WelcomeReplyBadZone,
       WelcomeReplyBadTime, WelcomeReplyNoZone, FooterOnlyReply, MixedOrderReply,
       ZeroPauseReply, LongPauseReply >>

BodyIds == 1..Len(Bodies)

\* the index of a body of the catalogue
IdOf(body) == CHOOSE b \in BodyIds : Bodies[b] = body

\* the grammar applied to the catalogue, computed once
ParsedReplies == [b \in BodyIds |-> ParseEmailReply(Bodies[b])]
ParsedPreferences == [b \in BodyIds |-> parseUserPreferences(Bodies[b])]
SignupIntent == [b \in BodyIds |-> NeedsVerification(Bodies[b])]

\* the subject each mail of the catalogue comes with; HandleEmailReply
\* receives it and does not read it
Subjects ==
    [b \in BodyIds |-> IF Bodies[b] \in {SignupMail, SubjectOnlyMail}
                       THEN <<"S","t","a","r","t">>
                       ELSE <<"R","e",":"," ","W","h","a","t"," ","d","i","d"," ","y","o","u"," ","g","e","t"," ","d","o","n","e"," ","t","o","d","a","y","?">>]
CodeFound == [b \in BodyIds |-> [c \in Codes |-> contains(Bodies[b], c)]]

\* everything Service.HandleSignupRequest may leave behind: the code is drawn
\* at random and every statement on the store may fail
SignupOutcomes(emailAddr) ==
    {SignupOutcome(emailAddr, code, readOK, writeOK, queueOK) :
        code \in Codes, readOK \in BOOLEAN, writeOK \in BOOLEAN, queueOK \in BOOLEAN}

\* everything Service.HandleEmailReply may leave behind for one message: the
\* subject is not looked at; every statement on the store may fail
ReplyOutcomes(senderEmail, b) ==
    LET body == Bodies[b]
        user == GetUserByEmail(users, senderEmail)
    IN  {Outcome(users, entries, outbox, "failed to get user")}
        \cup
        (IF user = 0
            THEN IF SignupIntent[b]
                 THEN SignupOutcomes(senderEmail)
                 ELSE {Outcome(users, entries, outbox, "unknown sender, please sign up first")}
         ELSE IF ~users[user].is_verified
            THEN {VerificationOutcome(user, CodeFound[b], ParsedPreferences[b], writeOK, queueOK) :
                     writeOK \in BOOLEAN, queueOK \in BOOLEAN}
         ELSE {ActiveOutcome(user, body, ParsedReplies[b], failAt, queueOK) :
                  failAt \in 0..Len(ParsedReplies[b].Commands), queueOK \in BOOLEAN})

\* Service.HandleEmailReply, called by the inbound handlers for one message
HandleEmailReply(senderEmail, b) ==
    /\ Len(outbox) < MaxMail
    /\ \E out \in ReplyOutcomes(senderEmail, b) :
          /\ users' = out.users
          /\ entries' = out.entries
          /\ outbox' = out.outbox
          /\ last' = [op |-> "HandleEmailReply", err |-> out.err, log |-> out.log]
    /\ UNCHANGED <<now, runs, transport>>

\* Service.HandleSignupRequest, called by the command line
HandleSignupRequest(emailAddr) ==
    /\ Len(outbox) < MaxMail
    /\ \E out \in SignupOutcomes(emailAddr) :
          /\ users' = out.users
          /\ entries' = out.entries
          /\ outbox' = out.outbox
          /\ last' = [op |-> "HandleSignupRequest", err |-> out.err, log |-> out.log]
    /\ UNCHANGED <<now, runs, transport>>

\* who writes to the service
Senders == {"ada@example.com"}

\* the answers to the welcome mail
WelcomeReplies ==
    {WelcomeReplyScenario, WelcomeReplyTimeFirst, WelcomeReplyNoCode,
     WelcomeReplyPlaceholder, WelcomeReplyBadZone, WelcomeReplyBadTime, WelcomeReplyNoZone}

\* the replies that the specification of the commands of a reply delivers
CommandReplies == {MixedOrderReply, ZeroPauseReply, LongPauseReply}

\* the mail a sender may send now: anything but those replies, except that
\* nobody answers the welcome mail again once the account is verified
MailFrom(senderEmail) ==
    LET user == GetUserByEmail(users, senderEmail)
    IN  IF user = 0 THEN {b \in BodyIds : Bodies[b] \notin CommandReplies}
        ELSE IF ~users[user].is_verified
            THEN {b \in BodyIds : Bodies[b] \notin CommandReplies \cup {SubjectOnlyMail}}
        ELSE {b \in BodyIds : Bodies[b] \notin CommandReplies \cup WelcomeReplies \cup {SubjectOnlyMail}}

\* The handlers of a message are followed at one instant of the clock: they
\* read it only to stamp the rows they write.
Init ==
    /\ users = <<>>
    /\ entries = {}
    /\ outbox = <<>>
    /\ now = WinterAfternoon
    /\ last = [op |-> "none", err |-> "", log |-> ""]
    /\ runs = [r \in Runs |-> IdleRun]
    /\ transport = NoTransport

Next ==
    \/ \E senderEmail \in Senders : \E b \in MailFrom(senderEmail) :
          HandleEmailReply(senderEmail, b)
    \/ \E emailAddr \in Senders : HandleSignupRequest(emailAddr)

Spec == Init /\ [][Next]_vars

(***************************************************************************)
(* the dispatcher's claims                                                 *)
(***************************************************************************)

\* C1: for every outbox message the transport send is invoked at most once,
\* whatever way the invocations of ProcessOutbox overlap.
C1_SendInvokedAtMostOnce ==
    \A i \in 1..Len(outbox) : transport.sends[i] <= 1

\* the step in which invocation r finishes with the row it was handling
FinishesRow(r) ==
    /\ runs[r].pc \in {"markSent", "markFailed"}
    /\ runs'[r].pc \in {"send", "idle"}

\* C2: when ProcessOutbox finishes with a message, the one terminal update it
\* made matches what the transport answered: accepted gives 'sent' with the
\* provider message id, an error gives 'failed' with the error text and
\* retry_count one higher; and a message the transport accepted is never
\* recorded as 'failed'.
C2_TerminalUpdateMatchesTransport ==
    [][ /\ \A r \in Runs : FinishesRow(r) =>
              LET id == Head(runs[r].rows)
              IN  IF runs[r].messageID # Null
                  THEN /\ outbox'[id].status = EmailStatusSent
                       /\ outbox'[id].ses_message_id = runs[r].messageID
                  ELSE /\ outbox'[id].status = EmailStatusFailed
                       /\ outbox'[id].error_message = runs[r].err
                       /\ outbox'[id].retry_count = outbox[id].retry_count + 1
        /\ \A i \in transport'.accepted : outbox'[i].status # EmailStatusFailed ]_vars

\* C3: a message starts 'pending' and moves only to 'sent' or 'failed'; once
\* it is 'sent' or 'failed' no step changes its status again.
C3_StatusMonotonic ==
    [][ /\ \A i \in 1..Len(outbox') :
              i > Len(outbox) => outbox'[i].status = EmailStatusPending
        /\ \A i \in 1..Len(outbox) :
              /\ outbox'[i].status \in {outbox[i].status, EmailStatusSent, EmailStatusFailed}
              /\ outbox[i].status # EmailStatusPending
                    => outbox'[i].status = outbox[i].status ]_vars

\* C4: once ProcessOutbox has returned, no message it attempted is 'pending'.
C4_AttemptedNeverLeftPending ==
    \A r \in Runs :
        runs[r].pc = "idle" =>
            \A i \in runs[r].attempted :
                outbox[i].status \in {EmailStatusSent, EmailStatusFailed}

(***************************************************************************)
(* the claims about replies and accounts                                   *)
(***************************************************************************)
\* code occurs in text when letter case is ignored
OccursIgnoringCase(text, code) ==
    \E i \in 1..Len(text) :
        /\ i + Len(code) - 1 <= Len(text)
        /\ \A j \in 1..Len(code) : LowerChar(text[i + j - 1]) = LowerChar(code[j])

\* the bodies of the catalogue that do not hold a code
LacksCode == [b \in BodyIds |-> [c \in Codes |-> ~OccursIgnoringCase(Bodies[b], c)]]

\* the sender has an account that waits for its verification
AwaitsVerification(senderEmail) ==
    LET u == GetUserByEmail(users, senderEmail)
    IN  /\ u # 0
        /\ ~users[u].is_verified
        /\ users[u].verification_code # Null

\* the sender has a verified account
IsActive(senderEmail) ==
    LET u == GetUserByEmail(users, senderEmail)
    IN  u # 0 /\ users[u].is_verified

\* the step added exactly one clarification message for the sender's account
\* to the outbox and changed no other row
OneClarificationEnqueued(senderEmail) ==
    /\ Len(outbox') = Len(outbox) + 1
    /\ SubSeq(outbox', 1, Len(outbox)) = outbox
    /\ outbox'[Len(outbox')].email_type = EmailTypeClarification
    /\ outbox'[Len(outbox')].user_id = Some(GetUserByEmail(users, senderEmail))
    /\ outbox'[Len(outbox')].recipient_email = senderEmail
    /\ outbox'[Len(outbox')].status = EmailStatusPending

\* C5: a reply from an unverified account whose body does not hold the
\* account's verification code, letter case ignored, leaves the account as it
\* was: unverified, with the same code and the same preferences.
C5_ReplyWithoutCodeNeverVerifies ==
    [][\A senderEmail \in Senders, b \in BodyIds :
          ( /\ last'.op = "HandleEmailReply"
            /\ AwaitsVerification(senderEmail)
            /\ LacksCode[b][users[GetUserByEmail(users, senderEmail)].verification_code[1]]
            /\ HandleEmailReply(senderEmail, b) )
          => users'[GetUserByEmail(users, senderEmail)]
                = users[GetUserByEmail(users, senderEmail)]]_vars

\* a reply without the account's code has been answered with the request for
\* the code, and the account still waits with that code
C5_Witness ==
    /\ last.op = "HandleEmailReply"
    /\ \E u \in 1..Len(users) :
          /\ ~users[u].is_verified
          /\ users[u].verification_code = Some(<<"6","5","4","3","2","1">>)
          /\ \E i \in 1..Len(outbox) :
                /\ outbox[i].user_id = Some(u)
                /\ outbox[i].body_text = <<"clarification", ClarifyMissingCode>>

\* C6: the welcome reply of the scenario, sent by the account whose code is
\* 123456 and handled without a storage error, verifies the account, stores
\* the name, the time zone and 9:00 and clears the code.
C6_ScenarioReplyVerifies ==
    [][\A senderEmail \in Senders :
          ( /\ AwaitsVerification(senderEmail)
            /\ users[GetUserByEmail(users, senderEmail)].verification_code = Some(<<"1","2","3","4","5","6">>)
            /\ HandleEmailReply(senderEmail, IdOf(WelcomeReplyScenario))
            /\ last'.err = "" )
          => LET after == users'[GetUserByEmail(users, senderEmail)]
             IN  /\ after.is_verified
                 /\ after.name = <<"A","d","a">>
                 /\ after.timezone = <<"A","m","e","r","i","c","a","/","N","e","w","_","Y","o","r","k">>
                 /\ after.prompt_time = 9 * 60
                 /\ after.verification_code = Null]_vars

\* the welcome replies of the catalogue that lack a required preference,
\* leave a placeholder, or give a time or a time zone that cannot be resolved
FaultyWelcomeReplies ==
    {WelcomeReplyPlaceholder, WelcomeReplyBadZone, WelcomeReplyBadTime, WelcomeReplyNoZone}

\* the reply is one that verification rejects
RejectedWelcomeReply(senderEmail, b) ==
    /\ AwaitsVerification(senderEmail)
    /\ \/ LacksCode[b][users[GetUserByEmail(users, senderEmail)].verification_code[1]]
       \/ Bodies[b] \in FaultyWelcomeReplies

C8_FailedCommandLeavesNoEffect ==
    [][\A senderEmail \in Senders, b \in BodyIds :
          ( /\ IsActive(senderEmail)
            /\ HandleEmailReply(senderEmail, b)
            /\ last'.log = "Failed to process command"
            /\ last'.err = "" )
          => LET u == GetUserByEmail(users, senderEmail)
             IN  /\ users'[u].is_paused = users[u].is_paused
                 /\ users'[u].pause_until = users[u].pause_until
                 /\ users'[u].project_focus = users[u].project_focus
                 /\ entries' = entries
                 /\ OneClarificationEnqueued(senderEmail)]_vars

\* the replies of the catalogue that do not parse: a pause whose duration is
\* not one, beside valid project and entry tags; quoted text only; nothing
UnparseableReplies == {BadPauseReply, QuotedOnlyReply, EmptyReply}

C10_EntryTaggedWithProjectFocus ==
    [][\A senderEmail \in Senders :
          ( /\ IsActive(senderEmail)
            /\ users[GetUserByEmail(users, senderEmail)].project_focus = Some(<<"i","n","f","r","a">>)
            /\ HandleEmailReply(senderEmail, IdOf(EntryReply))
            /\ last'.log = "Successfully processed email reply" )
          => LET u == GetUserByEmail(users, senderEmail)
                 today == {e \in entries' : e.user_id = u /\ e.entry_date = Today}
             IN  /\ Cardinality(today) = 1
                 /\ \A e \in today : /\ e.raw_content = EntryReply
                                     /\ e.project_tag = Some(<<"i","n","f","r","a">>)]_vars


Enrolled(us, email, verificationCode, prefs) ==
    LET pending == createPendingUser(us, email, verificationCode)
    IN  verifyUser(pending, Len(pending), prefs)

Writers == <<"ada@example.com", "bob@example.com">>

\* what the entry commands of the replies hold, and their project tags
EntryContents == {EntryReply, <<"D","i","d"," ","i","t">>}
ProjectTags == {Null, Some(<<"o","p","s">>)}

\* Service.saveEntry; the INSERT may fail
SaveEntry(userID, content, projectTag) ==
    /\ \E dbOK \in BOOLEAN :
          /\ entries' = IF dbOK THEN saveEntry(entries, userID, content, projectTag)
                               ELSE entries
          /\ last' = [op |-> "saveEntry",
                      err |-> IF dbOK THEN "" ELSE "saveEntry failed",
                      log |-> ""]
    /\ UNCHANGED <<users, outbox, now, runs, transport>>

InitEntries ==
    /\ now \in {LastHourOfDay, WinterAfternoon}
    /\ users = LET prefs == ParsedPreferences[IdOf(WelcomeReplyTimeFirst)].prefs
               IN  Enrolled(Enrolled(<<>>, Writers[1], <<"1","2","3","4","5","6">>, prefs),
                            Writers[2], <<"6","5","4","3","2","1">>, prefs)
    /\ entries = {}
    /\ outbox = <<>>
    /\ last = [op |-> "none", err |-> "", log |-> ""]
    /\ runs = [r \in Runs |-> IdleRun]
    /\ transport = NoTransport

NextEntries ==
    \/ \E userID \in 1..Len(Writers), content \in EntryContents, projectTag \in ProjectTags :
          SaveEntry(userID, content, projectTag)
    \/ Tick

SpecEntries == InitEntries /\ [][NextEntries]_vars

\* C12: in every reachable state there is at most one entry for an account
\* and a date.  A save that succeeds leaves exactly one entry for the account
\* and the date of the save, holding the saved text and tag, whatever was
\* stored for them before; it leaves the entries of the other accounts and
\* dates as they were; and saving the same entry once more changes nothing.
C12_OneEntryPerAccountAndDate ==
    /\ [](\A e1, e2 \in entries :
            (e1.user_id = e2.user_id /\ e1.entry_date = e2.entry_date) => e1 = e2)
    /\ [][\A userID \in 1..Len(Writers), content \in EntryContents, projectTag \in ProjectTags :
            ( /\ last'.op = "saveEntry"
              /\ last'.err = ""
              /\ SaveEntry(userID, content, projectTag) )
            => LET saved == {e \in entries' : e.user_id = userID /\ e.entry_date = Today}
               IN  /\ Cardinality(saved) = 1
                   /\ \A e \in saved : /\ e.raw_content = content
                                       /\ e.parsed_content = content
                                       /\ e.project_tag = projectTag
                   /\ entries' \ saved
                        = {e \in entries : ~(e.user_id = userID /\ e.entry_date = Today)}
                   /\ saveEntry(entries', userID, content, projectTag) = entries']_vars

\* an entry written an hour earlier has been overwritten by a save with
\* another text, and the other account has its own entry for the date
C12_Witness ==
    /\ last.op = "saveEntry"
    /\ last.err = ""
    /\ \E e \in entries :
          /\ e.entry_date = Today
          /\ e.created_at < e.updated_at
          /\ e.updated_at = now
          /\ e.raw_content = <<"D","i","d"," ","i","t">>
          /\ e.project_tag = Some(<<"o","p","s">>)
    /\ \E e1, e2 \in entries : e1.user_id # e2.user_id /\ e1.entry_date = e2.entry_date


\* ---------------------------------------------------------------------------
\* The scheduler: the hourly check for the daily prompts.

\* welcome replies of three subscribers: 11:00 in New York, 16:00 in London
\* and 16:00 UTC
PromptReplies ==
    << <<"1","2","3","4","5","6","\n","N","a","m","e",":"," ","A","d","a","\n","T","i","m","e",":"," ","1","1",":","0","0"," ","A","M","\n","T","i","m","e","z","o","n","e",":"," ","A","m","e","r","i","c","a","/","N","e","w","_","Y","o","r","k","\n","P","r","o","j","e","c","t",":"," ","i","n","f","r","a">>,
       <<"1","2","3","4","5","6","\n","N","a","m","e",":"," ","B","o","b","\n","T","i","m","e",":"," ","4"," ","P","M","\n","T","i","m","e","z","o","n","e",":"," ","E","u","r","o","p","e","/","L","o","n","d","o","n">>,
       <<"1","2","3","4","5","6","\n","N","a","m","e",":"," ","C","y","\n","T","i","m","e",":"," ","1","6",":","0","0","\n","T","i","m","e","z","o","n","e",":"," ","U","T","C">> >>

PromptPreferences == [k \in 1..Len(PromptReplies) |-> parseUserPreferences(PromptReplies[k]).prefs]

Subscribers == <<"ada@example.com", "bob@example.com", "cy@example.com">>

\* the subject of the code, and the body as the template with its data (the
\* date and the project focus; the quote drawn at random is left out)
RenderDailyPromptEmail(projectFocus) ==
    [subject |-> "What did you get done today?",
     body |-> <<"daily_prompt", Today, projectFocus>>]

SendDailyPrompt(ob, dbOK, userID, recipientEmail, projectFocus) ==
    LET r == RenderDailyPromptEmail(projectFocus)
    IN  QueueEmail(ob, dbOK, Some(userID), recipientEmail, EmailTypeDailyPrompt,
                   r.subject, r.body, Null)

\* every order in which a query with no ORDER BY may return the rows ids
RowOrders(ids) ==
    LET n == Cardinality(ids)
    IN  {s \in [1..n -> ids] : \A i, j \in 1..n : i # j => s[i] # s[j]}

\* the selection with no test of is_verified
GetUsersForDailyPromptUnverified(us, currentHour) ==
    RowOrders({i \in 1..Len(us) :
                  /\ (~us[i].is_paused \/ (us[i].pause_until # Null /\ us[i].pause_until[1] < now))
                  /\ us[i].prompt_time \div 60 = currentHour})

\* the selection with no test of the pause
GetUsersForDailyPromptPaused(us, currentHour) ==
    RowOrders({i \in 1..Len(us) :
                  /\ us[i].is_verified
                  /\ us[i].prompt_time \div 60 = currentHour})

\* WHERE is_verified = TRUE AND (is_paused = FALSE OR pause_until < NOW())
\*   AND EXTRACT(HOUR FROM prompt_time) = $1: every result set of the query
GetUsersForDailyPrompt(us, currentHour) ==
    RowOrders({i \in 1..Len(us) :
                  /\ us[i].is_verified
                  /\ (~us[i].is_paused \/ (us[i].pause_until # Null /\ us[i].pause_until[1] < now))
                  /\ us[i].prompt_time \div 60 = currentHour})

shouldSendPrompt(user, currentHour) ==
    LET loc == LoadLocation(user.timezone)
    IN  IF loc = 0 THEN FALSE
        ELSE LocalHour(loc, now) = user.prompt_time \div 60

\* the loop of sendDailyPrompts over the rows selected; failed holds the
\* accounts whose SendDailyPrompt returns an error
RECURSIVE QueuePrompts(_, _, _, _, _)
QueuePrompts(us, ob, selected, currentHour, failed) ==
    IF Len(selected) = 0 THEN ob
    ELSE LET userID == selected[1]
             user == us[userID]
             ob1 == IF shouldSendPrompt(user, currentHour)
                    THEN SendDailyPrompt(ob, userID \notin failed, userID, user.email,
                                         user.project_focus)
                    ELSE ob
         IN  QueuePrompts(us, ob1, Tail(selected), currentHour, failed)

\* an hourly check that writes the expiry of a pause back: it clears the flag
\* of every account whose pause has ended
sendDailyPromptsWritingBack ==
    /\ Len(outbox) < MaxMail
    /\ \E selected \in GetUsersForDailyPrompt(users, UTCHour(now)) :
          /\ outbox' = QueuePrompts(users, outbox, selected, UTCHour(now), {})
          /\ users' = [u \in 1..Len(users) |->
                          IF users[u].is_paused /\ users[u].pause_until # Null
                                /\ users[u].pause_until[1] < now
                          THEN [users[u] EXCEPT !.is_paused = FALSE, !.pause_until = Null]
                          ELSE users[u]]
          /\ last' = [op |-> "sendDailyPrompts", err |-> "", log |-> ""]
    /\ UNCHANGED <<entries, now, runs, transport>>

\* sendDailyPrompts, run by the scheduler every hour from the start of the
\* process, which may be restarted at any time
sendDailyPrompts ==
    /\ Len(outbox) < MaxMail
    /\ LET currentHour == UTCHour(now)
       IN  \/ /\ outbox' = outbox
              /\ last' = [op |-> "sendDailyPrompts",
                          err |-> "failed to query users for daily prompt", log |-> ""]
           \/ \E selected \in GetUsersForDailyPrompt(users, currentHour) :
              \E failed \in SUBSET {selected[i] : i \in 1..Len(selected)} :
                 /\ outbox' = QueuePrompts(users, outbox, selected, currentHour, failed)
                 /\ last' = [op |-> "sendDailyPrompts", err |-> "",
                             log |-> IF failed = {} THEN "" ELSE "Failed to send daily prompt"]
    /\ UNCHANGED <<users, entries, now, runs, transport>>

\* what has become of a subscriber when the check starts: the account is
\* pending (created, never verified), active, or paused for one day, either
\* 25 hours ago (the pause has expired) or an hour ago (it has not)
AccountConditions == {"pending", "active", "expired", "paused"}

\* the row pauseUser left when it handled a pause of one day at the instant t
PausedForADay(us, userID, t) ==
    [us EXCEPT ![userID].is_paused = TRUE,
               ![userID].pause_until = Some(t + 24),
               ![userID].updated_at = t]

Subscribed(us, k, condition) ==
    IF condition = "pending"
        THEN createPendingUser(us, Subscribers[k], <<"1","2","3","4","5","6">>)
    ELSE IF condition = "active"
        THEN Enrolled(us, Subscribers[k], <<"1","2","3","4","5","6">>, PromptPreferences[k])
    ELSE IF condition = "expired"
        THEN PausedForADay(Enrolled(us, Subscribers[k], <<"1","2","3","4","5","6">>, PromptPreferences[k]),
                           k, now - 25)
    ELSE PausedForADay(Enrolled(us, Subscribers[k], <<"1","2","3","4","5","6">>, PromptPreferences[k]),
                       k, now - 1)

InitScheduler ==
    /\ now \in {WinterAfternoon, SummerAfternoon}
    /\ \E c \in [1..Len(Subscribers) -> AccountConditions] :
          users = Subscribed(Subscribed(Subscribed(<<>>, 1, c[1]), 2, c[2]), 3, c[3])
    /\ entries = {}
    /\ outbox = <<>>
    /\ last = [op |-> "none", err |-> "", log |-> ""]
    /\ runs = [r \in Runs |-> IdleRun]
    /\ transport = NoTransport

NextScheduler ==
    \/ sendDailyPrompts
    \/ Tick

SpecScheduler == InitScheduler /\ [][NextScheduler]_vars


\* the step enqueues a daily prompt for the account userID
PromptedNow(userID) ==
    \E i \in (Len(outbox) + 1)..Len(outbox') :
       /\ outbox'[i].email_type = EmailTypeDailyPrompt
       /\ outbox'[i].user_id = Some(userID)

\* the account is paused and its pause has not ended
InUnexpiredPause(user) ==
    user.is_paused /\ user.pause_until # Null /\ user.pause_until[1] >= now

\* a run of the hourly check in which the query and every insert succeed
CheckRanClean ==
    /\ sendDailyPrompts
    /\ last'.op = "sendDailyPrompts"
    /\ last'.err = ""
    /\ last'.log = ""

\* C13 as stated: a run of the hourly check enqueues a daily prompt for a
\* verified account that is not in an unexpired pause if and only if the hour
\* of the clock in the account's own zone, with the daylight-saving offset of
\* the date, is the hour of its stored prompt time.
C13_PromptedIffLocalHourMatches ==
    [][CheckRanClean
          => \A u \in 1..Len(users) :
                ( /\ users[u].is_verified
                  /\ ~InUnexpiredPause(users[u])
                  /\ LoadLocation(users[u].timezone) # 0 )
                => ( PromptedNow(u)
                       <=> LocalHour(LoadLocation(users[u].timezone), now)
                              = users[u].prompt_time \div 60 )]_vars

\* C13, what the code does: the account is prompted if and only if the hour
\* of its prompt time is both the hour of the clock in UTC and the hour of
\* the clock in its own zone.
C13_PromptedIffUTCAndLocalHourMatch ==
    [][CheckRanClean
          => \A u \in 1..Len(users) :
                ( /\ users[u].is_verified
                  /\ ~InUnexpiredPause(users[u])
                  /\ LoadLocation(users[u].timezone) # 0 )
                => ( PromptedNow(u)
                       <=> /\ UTCHour(now) = users[u].prompt_time \div 60
                           /\ LocalHour(LoadLocation(users[u].timezone), now)
                                 = users[u].prompt_time \div 60 )]_vars

\* C14: a run of the hourly check enqueues no daily prompt for an account
\* that is not verified, and no daily prompt in the outbox is addressed to
\* such an account.
C14_UnverifiedNeverPrompted ==
    /\ [](\A i \in 1..Len(outbox) :
            outbox[i].email_type = EmailTypeDailyPrompt
            => users[outbox[i].user_id[1]].is_verified)
    /\ [][(sendDailyPrompts /\ last'.op = "sendDailyPrompts")
            => \A u \in 1..Len(users) : ~users[u].is_verified => ~PromptedNow(u)]_vars

\* the check has run at 16:00 UTC and has prompted an account, and an account
\* that is not verified, whose zone is UTC and whose prompt time is 16:00,
\* has no prompt
C14_Witness ==
    /\ last.op = "sendDailyPrompts"
    /\ UTCHour(now) = 16
    /\ \E i \in 1..Len(outbox) : outbox[i].email_type = EmailTypeDailyPrompt
    /\ \E u \in 1..Len(users) :
          /\ ~users[u].is_verified
          /\ users[u].timezone = <<"U","T","C">>
          /\ users[u].prompt_time \div 60 = 16
          /\ ~\E i \in 1..Len(outbox) : outbox[i].user_id = Some(u)

\* the account with its pause lifted
Unpaused(us, userID) == [us EXCEPT ![userID].is_paused = FALSE]

\* C15: a run of the hourly check enqueues no daily prompt for a paused
\* account whose pause_until is in the future.  A paused account whose
\* pause_until has passed is selected as the same account would be were it
\* not paused: a run in which the query and the inserts succeed prompts it
\* exactly when it would prompt that account; the row of the account stays
\* as it is.
C15_PauseRespectedUntilItExpires ==
    [][(sendDailyPrompts /\ last'.op = "sendDailyPrompts")
          => /\ users' = users
             /\ \A u \in 1..Len(users) :
                   /\ ( /\ users[u].is_paused
                        /\ users[u].pause_until # Null
                        /\ users[u].pause_until[1] > now )
                      => ~PromptedNow(u)
                   /\ ( /\ users[u].is_paused
                        /\ users[u].pause_until # Null
                        /\ users[u].pause_until[1] < now
                        /\ last'.err = ""
                        /\ last'.log = "" )
                      => ( PromptedNow(u)
                             <=> /\ \E s \in GetUsersForDailyPrompt(Unpaused(users, u),
                                                                   UTCHour(now)) :
                                       \E i \in 1..Len(s) : s[i] = u
                                 /\ shouldSendPrompt(users[u], UTCHour(now)) )]_vars

\* the check has prompted a paused account whose pause has expired, and has
\* not prompted a paused account with the same prompt hour in UTC whose pause
\* has not
C15_Witness ==
    /\ last.op = "sendDailyPrompts"
    /\ \E u, v \in 1..Len(users) :
          /\ users[u].is_verified /\ users[u].is_paused
          /\ users[u].pause_until[1] < now
          /\ \E i \in 1..Len(outbox) :
                outbox[i].user_id = Some(u) /\ outbox[i].email_type = EmailTypeDailyPrompt
          /\ users[v].is_verified /\ users[v].is_paused
          /\ users[v].pause_until[1] > now
          /\ users[v].prompt_time \div 60 = UTCHour(now)
          /\ LocalHour(LoadLocation(users[v].timezone), now) = UTCHour(now)
          /\ ~\E i \in 1..Len(outbox) : outbox[i].user_id = Some(v)

\* C16 as stated: whatever runs of the hourly check have taken place, the
\* outbox holds at most one daily prompt for an account and a calendar day.
C16_OnePromptPerAccountPerDay ==
    \A i, j \in 1..Len(outbox) :
       ( /\ outbox[i].email_type = EmailTypeDailyPrompt
         /\ outbox[j].email_type = EmailTypeDailyPrompt
         /\ outbox[i].user_id = outbox[j].user_id
         /\ outbox[i].created_at \div 24 = outbox[j].created_at \div 24 )
       => i = j


\* the errors a failing statement of the store makes a handler return
StoreErrors ==
    {"failed to get user", "failed to check existing user",
     "failed to create/update user", "failed to queue email", "verifyUser failed"}

SubjectIntent == [b \in BodyIds |-> NeedsVerification(Subjects[b])]

\* the step creates an unverified account for senderEmail that holds a code,
\* and enqueues one verification message with that code to senderEmail
SignedUp(senderEmail) ==
    /\ Len(users') = Len(users) + 1
    /\ SubSeq(users', 1, Len(users)) = users
    /\ users'[Len(users')].email = senderEmail
    /\ ~users'[Len(users')].is_verified
    /\ users'[Len(users')].verification_code # Null
    /\ Len(outbox') = Len(outbox) + 1
    /\ SubSeq(outbox', 1, Len(outbox)) = outbox
    /\ outbox'[Len(outbox')].email_type = EmailTypeVerification
    /\ outbox'[Len(outbox')].recipient_email = senderEmail
    /\ outbox'[Len(outbox')].body_text
          = <<"welcome", users'[Len(users')].verification_code[1]>>

\* C17 as stated: a mail from an address with no account whose body or
\* subject holds a signup keyword, handled with no failure of the store,
\* creates an unverified account with a code and enqueues one verification
\* message with that code.
C17_SignupOnKeywordInBodyOrSubject ==
    [][\A senderEmail \in Senders, b \in BodyIds :
          ( /\ last'.op = "HandleEmailReply"
            /\ GetUserByEmail(users, senderEmail) = 0
            /\ (SignupIntent[b] \/ SubjectIntent[b])
            /\ HandleEmailReply(senderEmail, b)
            /\ last'.err \notin StoreErrors )
          => SignedUp(senderEmail)]_vars

\* C17, what the code does: the signup runs when the body holds a keyword.
C17_SignupOnKeywordInBody ==
    [][\A senderEmail \in Senders, b \in BodyIds :
          ( /\ last'.op = "HandleEmailReply"
            /\ GetUserByEmail(users, senderEmail) = 0
            /\ SignupIntent[b]
            /\ HandleEmailReply(senderEmail, b)
            /\ last'.err \notin StoreErrors )
          => SignedUp(senderEmail)]_vars

\* the bodies of the catalogue in which no signup keyword occurs, whatever
\* the case of its letters
LacksKeyword ==
    [b \in BodyIds |-> ~\E p \in verificationPatterns : OccursIgnoringCase(Bodies[b], p)]

Rejected(senderEmail, b) ==
    LET u == GetUserByEmail(users, senderEmail)
    IN  IF users[u].is_verified
        THEN ~ParsedReplies[b].IsValidated \/ last'.log = "Failed to process command"
        ELSE /\ users[u].verification_code # Null
             /\ \/ ~CodeFound[b][users[u].verification_code[1]]
                \/ ParsedPreferences[b].err # ""

QueueInputs ==
    [user_id : {Null, Some(1)}, recipient : {"ada@example.com"},
     type : {EmailTypeVerification, EmailTypeDailyPrompt, EmailTypeWeeklySummary,
             EmailTypeClarification},
     scheduled_at : {Null, Some(1)}]

\* Service.QueueEmail; the INSERT may fail
QueueEmailCall ==
    /\ Len(outbox) < MaxMail
    /\ \E in \in QueueInputs, dbOK \in BOOLEAN :
          /\ outbox' = QueueEmail(outbox, dbOK, in.user_id, in.recipient, in.type,
                                  "s", <<"b">>, in.scheduled_at)
          /\ last' = [op |-> "QueueEmail", err |-> QueueErr(dbOK), log |-> ""]
    /\ UNCHANGED <<users, entries, now, runs, transport>>

NextQueue ==
    \/ QueueEmailCall
    \/ Tick

SpecQueue == InitOutbox /\ [][NextQueue]_vars

\* the step appends one row, pending and never retried, and leaves the rows
\* of the outbox as they were
OneRowAppended ==
    /\ Len(outbox') = Len(outbox) + 1
    /\ SubSeq(outbox', 1, Len(outbox)) = outbox
    /\ outbox'[Len(outbox')].status = EmailStatusPending
    /\ outbox'[Len(outbox')].retry_count = 0

C21_AttemptsOnlyPendingDue ==
    [][\A r \in Runs : sendEmail(r) => IsDue(outbox[Head(runs[r].rows)])]_vars


\* One dispatcher at work, run after run, while callers enqueue: the
\* scheduler's five-minute job (gocron runs a job again only when its
\* interval has passed) and the callers of QueueEmail.  The behaviours start at the hour the delayed message of
\* OutboxInputs is scheduled for, or the hour before.
InitDispatch ==
    /\ users = <<>>
    /\ entries = {}
    /\ outbox = <<>>
    /\ now \in {YearStart, YearStart + 1}
    /\ last = [op |-> "none", err |-> "", log |-> ""]
    /\ runs = [r \in Runs |-> IdleRun]
    /\ transport = NoTransport

NextDispatch ==
    \/ Enqueue
    \/ ProcessOutboxQuery("scheduler")
    \/ sendEmail("scheduler")
    \/ markEmailSent("scheduler")
    \/ markEmailFailed("scheduler")

SpecDispatch == InitDispatch /\ [][NextDispatch]_vars

\* the columns of a message that QueueEmail's INSERT sets
Content(row) ==
    <<row.user_id, row.recipient_email, row.email_type, row.subject, row.body_text,
      row.scheduled_at, row.created_at>>

\* C22: no step removes a message from the outbox; a step that changes a
\* stored message is the dispatcher's markEmailSent or markEmailFailed; and
\* no step changes a stored message's recipient, category, subject, body
\* (nor its account, schedule or creation time).
C22_AppendOnlyAuditTrail ==
    [][ /\ Len(outbox') >= Len(outbox)
        /\ \A i \in 1..Len(outbox) :
              /\ Content(outbox'[i]) = Content(outbox[i])
              /\ outbox'[i] # outbox[i] =>
                    \E r \in Runs : markEmailSent(r) \/ markEmailFailed(r) ]_vars

\* a message is stored as sent with its provider id and another as failed
\* with its error text, both with the text they were enqueued with
C22_Witness ==
    \E i, j \in 1..Len(outbox) :
        /\ outbox[i].status = EmailStatusSent
        /\ outbox[i].ses_message_id # Null
        /\ outbox[i].body_text # <<>>
        /\ outbox[j].status = EmailStatusFailed
        /\ outbox[j].error_message # Null
        /\ outbox[j].retry_count = 1


\* the rows of a result set
Selected(rows) == {rows[k] : k \in 1..Len(rows)}

FairDispatch ==
    /\ SpecDispatch
    /\ WF_vars(ProcessOutboxQuery("scheduler"))
    /\ WF_vars(sendEmail("scheduler"))
    /\ WF_vars(markEmailSent("scheduler"))
    /\ WF_vars(markEmailFailed("scheduler"))

\* C24: a message whose delivery attempt failed is attempted again by a later
\* run of the dispatcher and is sent in the end.
C24_FailedIsRetriedUntilSent ==
    \A i \in 1..MaxMsgs :
        (i <= Len(outbox) /\ outbox[i].status = EmailStatusFailed)
            ~> (i <= Len(outbox) /\ outbox[i].status = EmailStatusSent)


(***************************************************************************)
(* the reply grammar on its own: ParseEmailReply applied to reply texts     *)
(***************************************************************************)

\* the phrases of the pause-duration table and the days they stand for
PhraseDays ==
    << [text |-> <<"t","o","d","a","y">>, days |-> 1], [text |-> <<"t","o","m","o","r","r","o","w">>, days |-> 1],
       [text |-> <<"t","h","i","s"," ","w","e","e","k">>, days |-> 7], [text |-> <<"n","e","x","t"," ","w","e","e","k">>, days |-> 7],
       [text |-> <<"t","h","i","s"," ","m","o","n","t","h">>, days |-> 30], [text |-> <<"n","e","x","t"," ","m","o","n","t","h">>, days |-> 30] >>

\* the unit words of the table and the days they stand for
UnitDays ==
    << [text |-> <<"d","a","y">>, days |-> 1], [text |-> <<"d","a","y","s">>, days |-> 1],
       [text |-> <<"w","e","e","k">>, days |-> 7], [text |-> <<"w","e","e","k","s">>, days |-> 7],
       [text |-> <<"m","o","n","t","h">>, days |-> 30], [text |-> <<"m","o","n","t","h","s">>, days |-> 30] >>

\* a number, white space or none, and a unit word
NumberUnitTexts ==
    {n \o g \o UnitDays[u].text :
        n \in {<<"1">>, <<"2">>, <<"1","0">>}, g \in {<<>>, <<" ">>}, u \in 1..Len(UnitDays)}

\* the same with words before it, after it or both
WordyTexts ==
    {p \o t \o s : p \in {<<>>, <<"f","o","r"," ">>}, t \in NumberUnitTexts, s \in {<<>>, <<" ","o","r"," ","s","o">>}}
        \ NumberUnitTexts

\* phrasings without a number-unit pair
OtherTexts ==
    {<<"s","o","m","e","d","a","y">>, <<"n","e","x","t"," ","y","e","a","r">>, <<"a"," ","w","e","e","k">>, <<"t","w","o"," ","d","a","y","s">>, <<"u","n","t","i","l"," ","f","r","i","d","a","y">>, <<"3">>, <<"d","a","y","s">>, <<"3"," ","h","o","u","r","s">>}

\* the texts a pause tag of the model holds
DurationTexts ==
    {PhraseDays[k].text : k \in 1..Len(PhraseDays)} \cup NumberUnitTexts \cup WordyTexts
        \cup OtherTexts

\* what ParseEmailReply makes of a reply that is one pause tag
PauseTagReplies ==
    [d \in DurationTexts |-> ParseEmailReply(pauseOpen \o d \o pauseClose)]

\* the parser is handed a reply that holds one pause tag
ParsePauseTag(durationStr) ==
    /\ last' = [op |-> "ParsePauseTag", err |-> "", log |-> "",
                durationStr |-> durationStr, reply |-> PauseTagReplies[durationStr]]
    /\ UNCHANGED <<users, entries, outbox, now, runs, transport>>

\* what a reply holds besides boilerplate: nothing, plain text on one line or
\* two, text with an angle bracket that is no tag, an empty tag (the patterns
\* want one character at least between the tags), text with space around it;
\* and what is left of it after cleaning
PlainCores ==
    { [raw |-> <<>>, leftover |-> <<>>],
      [raw |-> <<"D","i","d"," ","i","t">>, leftover |-> <<"D","i","d"," ","i","t">>],
      [raw |-> <<"L","i","n","e"," ","o","n","e","\n","L","i","n","e"," ","t","w","o">>, leftover |-> <<"L","i","n","e"," ","o","n","e","\n","L","i","n","e"," ","t","w","o">>],
      [raw |-> <<"F","i","x","e","d"," ","a"," ","<","b",">","b","o","l","d","<","/","b",">"," ","b","u","g">>, leftover |-> <<"F","i","x","e","d"," ","a"," ","<","b",">","b","o","l","d","<","/","b",">"," ","b","u","g">>],
      [raw |-> <<"<","e","n","t","r","y",">","<","/","e","n","t","r","y",">">>, leftover |-> <<"<","e","n","t","r","y",">","<","/","e","n","t","r","y",">">>],
      [raw |-> <<" "," ","p","a","d","d","e","d"," "," ">>, leftover |-> <<"p","a","d","d","e","d">>] }

\* boilerplate before the text and after it
BoilerplateBefore == {<<>>, <<">"," ","q","u","o","t","e","d"," ","l","i","n","e","\n">>, <<"F","r","o","m",":"," ","b","o","b","@","e","x","a","m","p","l","e",".","c","o","m","\n">>, <<"\n","\n">>}
BoilerplateAfter == {<<>>, <<"\n","S","e","n","t"," ","f","r","o","m"," ","m","y"," ","p","h","o","n","e">>, <<"\n","O","n"," ","M","o","n","d","a","y",","," ","B","o","b"," ","w","r","o","t","e",":","\n",">"," ","o","l","d","\n","o","l","d","e","r">>}

\* replies without a tag, each with the text cleaning leaves of it
PlainReplies ==
    {[raw |-> p \o c.raw \o s, leftover |-> c.leftover] :
        p \in BoilerplateBefore, c \in PlainCores, s \in BoilerplateAfter}

\* replies with a tag, with and without text around it
TaggedReplies ==
    {p \o t \o s :
        p \in BoilerplateBefore,
        t \in {<<"<","e","n","t","r","y",">","D","i","d"," ","i","t","<","/","e","n","t","r","y",">">>, <<"<","p","r","o","j","e","c","t",">","o","p","s","<","/","p","r","o","j","e","c","t",">">>, <<"N","o","t","e"," ","<","p","a","u","s","e",">","2"," ","d","a","y","s","<","/","p","a","u","s","e",">">>},
        s \in BoilerplateAfter}

RawReplies == {r.raw : r \in PlainReplies} \cup TaggedReplies

ParsedRawReplies == [rawContent \in RawReplies |-> ParseEmailReply(rawContent)]

\* the parser is handed a reply
ParseReply(rawContent) ==
    /\ last' = [op |-> "ParseEmailReply", err |-> "", log |-> "",
                rawContent |-> rawContent, reply |-> ParsedRawReplies[rawContent]]
    /\ UNCHANGED <<users, entries, outbox, now, runs, transport>>

\* what a welcome reply may hold for one preference: no line for it (<<>>),
\* or a line with nothing, with underscores (one, four, or the eleven of the
\* welcome mail) or with a value
Unfilled == {Null, Some(<<>>), Some(<<"_">>), Some(<<"_","_","_","_">>), Some(<<"_","_","_","_","_","_","_","_","_","_","_">>)}

PreferenceChoices ==
    [name : Unfilled \cup {Some(<<"A","d","a">>)},
     time : Unfilled \cup {Some(<<"1","6",":","0","0">>)},
     timezone : Unfilled \cup {Some(<<"U","T","C">>)}]

\* the line of a preference, if the reply has one
PreferenceLine(label, value) ==
    IF value = Null THEN <<>> ELSE label \o <<":"," ">> \o value[1] \o <<"\n">>

\* the welcome reply with these preferences: the code, then the lines in the
\* order name, time, time zone
PreferenceReply(choice) ==
    <<"1","2","3","4","5","6","\n">> \o PreferenceLine(<<"N","a","m","e">>, choice.name)
        \o PreferenceLine(<<"T","i","m","e">>, choice.time)
        \o PreferenceLine(<<"T","i","m","e","z","o","n","e">>, choice.timezone)

ParsedChoices == [choice \in PreferenceChoices |-> parseUserPreferences(PreferenceReply(choice))]

\* handleVerification hands the body of a welcome reply to parseUserPreferences
ParsePreferences(choice) ==
    /\ last' = [op |-> "parseUserPreferences", err |-> ParsedChoices[choice].err, log |-> "",
                choice |-> choice, prefs |-> ParsedChoices[choice].prefs]
    /\ UNCHANGED <<users, entries, outbox, now, runs, transport>>

NextParser ==
    \/ \E durationStr \in DurationTexts : ParsePauseTag(durationStr)
    \/ \E rawContent \in RawReplies : ParseReply(rawContent)
    \/ \E choice \in PreferenceChoices : ParsePreferences(choice)

SpecParser == Init /\ [][NextParser]_vars

\* the days the table gives a text: <<>> for a text that is no phrase of the
\* table and no number followed by a unit
TableDays(text) ==
    LET phrase == {k \in 1..Len(PhraseDays) : PhraseDays[k].text = text}
        pairs == {<<n, u>> \in {<<"1">>, <<"2">>, <<"1","0">>} \X (1..Len(UnitDays)) :
                     \E g \in {<<>>, <<" ">>} : text = n \o g \o UnitDays[u].text}
    IN  IF phrase # {} THEN Some(PhraseDays[CHOOSE k \in phrase : TRUE].days)
        ELSE IF pairs # {}
             THEN LET p == CHOOSE q \in pairs : TRUE
                  IN  Some(Atoi(p[1]) * UnitDays[p[2]].days)
        ELSE Null

\* the reply came out as the table says for its pause tag
AsTheTableSays ==
    LET days == TableDays(last.durationStr)
    IN  IF days = Null
        THEN /\ ~last.reply.IsValidated
             /\ last.reply.Commands = <<>>
        ELSE /\ last.reply.IsValidated
             /\ last.reply.Commands =
                   <<[Type |-> CommandTypePause, Value |-> last.durationStr,
                      Duration |-> Some(days[1] * 24)]>>

\* C25: a pause tag with a phrase of the table or a number and a unit gives
\* the pause the table says; a pause tag with any other text, a number and a
\* unit with words around them included, invalidates the reply.
C25_PauseDurationFollowsTable ==
    last.op = "ParsePauseTag" => AsTheTableSays

\* C25, without the texts that have words around a number and a unit: the
\* table is followed.
C25_TableFollowedWithoutExtraWords ==
    last.op = "ParsePauseTag" /\ last.durationStr \notin WordyTexts => AsTheTableSays


(***************************************************************************)
(* replies that are boilerplate only                                       *)
(***************************************************************************)

\* the replies of the catalogue that hold nothing but quoted or signature
\* boilerplate: quote-marker lines and text after "On ... wrote:"; a "Sent
\* from" footer and From:/To:/Subject:/Date: lines
BoilerplateReplies == {QuotedOnlyReply, FooterOnlyReply}

C27_UntaggedReplyIsOneEntryOrEmpty ==
    \A r \in PlainReplies :
        (last.op = "ParseEmailReply" /\ last.rawContent = r.raw) =>
            /\ last.reply.Content = r.leftover
            /\ IF r.leftover # <<>>
               THEN /\ last.reply.IsValidated
                    /\ last.reply.Commands =
                          <<[Type |-> CommandTypeEntry, Value |-> r.leftover, Duration |-> Null]>>
               ELSE /\ ~last.reply.IsValidated
                    /\ last.reply.Commands = <<>>

\* a reply of two lines between a quoted line and a footer has been parsed
\* into one entry of the two lines
C27_Witness ==
    /\ last.op = "ParseEmailReply"
    /\ last.rawContent = <<">"," ","q","u","o","t","e","d"," ","l","i","n","e","\n","L","i","n","e"," ","o","n","e","\n","L","i","n","e"," ","t","w","o","\n","S","e","n","t"," ","f","r","o","m"," ","m","y"," ","p","h","o","n","e">>
    /\ Len(last.reply.Commands) = 1
    /\ last.reply.Commands[1].Value = <<"L","i","n","e"," ","o","n","e","\n","L","i","n","e"," ","t","w","o">>


\* C28: a welcome reply in which the name, the time zone or the preferred
\* time is missing, blank or a run of underscores fails validation:
\* parseUserPreferences returns an error (on which handleVerification leaves
\* the account unverified and asks for a clarification).
C28_UnfilledPreferenceFailsValidation ==
    ( /\ last.op = "parseUserPreferences"
      /\ \/ last.choice.name \in Unfilled
         \/ last.choice.timezone \in Unfilled
         \/ last.choice.time \in Unfilled )
    => last.err # ""

\* C28, for what the code looks for: a reply without a name line or a time
\* zone line, or with one or eleven underscores for the name or the time
\* zone, fails validation.
C28_TemplatePlaceholderFailsValidation ==
    ( /\ last.op = "parseUserPreferences"
      /\ \/ last.choice.name \in {Null, Some(<<"_">>), Some(<<"_","_","_","_","_","_","_","_","_","_","_">>)}
         \/ last.choice.timezone \in {Null, Some(<<"_">>), Some(<<"_","_","_","_","_","_","_","_","_","_","_">>)} )
    => last.err # ""


(***************************************************************************)
(* the three loops over units: the rows of an outbox batch, the records of *)
(* an inbound event, the accounts of the hourly check                      *)
(***************************************************************************)

\* the records of an inbound event: a mail of a subscriber and a record
\* without a sender; extractEmailContent gives every record the empty body
InboundRecords ==
    { [source |-> "bob@example.com", body |-> IdOf(EmptyReply)],
      [source |-> "", body |-> IdOf(EmptyReply)] }

\* the events: the two records, in either order
SESEvents == {records \in InboundRecords \X InboundRecords : records[1] # records[2]}

\* handleSESEvent is invoked with an event: the loop starts
handleSESEvent(records) ==
    /\ runs["parser"].records = <<>>
    /\ runs' = [runs EXCEPT !["parser"].records = records]
    /\ UNCHANGED <<users, entries, outbox, now, last, transport>>

\* one turn of the loop of handleSESEvent: processEmailRecord for the next
\* record, whose error is logged
processEmailRecord ==
    /\ runs["parser"].records # <<>>
    /\ Len(outbox) < MaxMail
    /\ \E record \in InboundRecords :
          /\ record = Head(runs["parser"].records)
          /\ IF record.source = ""
             THEN /\ last' = [op |-> "processEmailRecord", err |-> "no sender email found",
                              log |-> "Failed to process email record"]
                  /\ UNCHANGED <<users, entries, outbox>>
             ELSE \E out \in ReplyOutcomes(record.source, record.body) :
                     /\ users' = out.users
                     /\ entries' = out.entries
                     /\ outbox' = out.outbox
                     /\ last' = [op |-> "processEmailRecord", err |-> out.err,
                                 log |-> IF out.err # "" THEN "Failed to process email record"
                                         ELSE out.log]
    /\ runs' = [runs EXCEPT !["parser"].records = Tail(@)]
    /\ UNCHANGED <<now, transport>>

\* Two verified subscribers at 16:00 UTC of a winter day, the prompt hour of
\* both; the outbox is empty, no loop is at work.
InitUnits ==
    /\ now = WinterAfternoon + 1
    /\ users = Subscribed(Subscribed(<<>>, 2, "active"), 3, "active")
    /\ entries = {}
    /\ outbox = <<>>
    /\ last = [op |-> "none", err |-> "", log |-> ""]
    /\ runs = [r \in Runs \cup {"parser"} |->
                  IF r = "parser" THEN [records |-> <<>>] ELSE IdleRun]
    /\ transport = NoTransport

NextUnits ==
    \/ outbox = <<>> /\ sendDailyPrompts
    \/ \E records \in SESEvents : handleSESEvent(records)
    \/ processEmailRecord
    \/ ProcessOutboxQuery("scheduler")
    \/ sendEmail("scheduler")
    \/ markEmailSent("scheduler")
    \/ markEmailFailed("scheduler")

SpecUnits == InitUnits /\ [][NextUnits]_vars

\* C29: a fault stays with its unit.  When the delivery of a message of a
\* batch has failed, no other message changes and the loop goes on with the
\* rows that are left, so that a run that has returned has attempted every
\* row it selected; when processEmailRecord fails for a record, the loop goes
\* on with the records that are left; and in a run of the hourly check every
\* selected account that is due and whose own insert succeeds gets its
\* prompt, whatever inserts of other accounts fail.
C29_FaultStaysWithItsUnit ==
    /\ [](runs["scheduler"].pc = "idle" => runs["scheduler"].rows = <<>>)
    /\ [][ /\ markEmailFailed("scheduler") =>
                 /\ \A j \in 1..Len(outbox) :
                       j # Head(runs["scheduler"].rows) => outbox'[j] = outbox[j]
                 /\ runs'["scheduler"].rows = Tail(runs["scheduler"].rows)
                 /\ runs'["scheduler"].attempted
                       = runs["scheduler"].attempted \cup {Head(runs["scheduler"].rows)}
                 /\ runs'["scheduler"].rows # <<>> => runs'["scheduler"].pc = "send"
           /\ (processEmailRecord /\ last'.op = "processEmailRecord" /\ last'.err # "") =>
                 runs'["parser"].records = Tail(runs["parser"].records)
           /\ \A selected \in GetUsersForDailyPrompt(users, UTCHour(now)) :
              \A failed \in SUBSET {selected[i] : i \in 1..Len(selected)} :
                 ( /\ last'.op = "sendDailyPrompts"
                   /\ last'.err = ""
                   /\ sendDailyPrompts
                   /\ outbox' = QueuePrompts(users, outbox, selected, UTCHour(now), failed) )
                 => \A i \in 1..Len(selected) :
                       (selected[i] \notin failed /\ shouldSendPrompt(users[selected[i]], UTCHour(now)))
                          => PromptedNow(selected[i]) ]_vars

\* one run of the dispatcher has attempted the two prompts of the hourly
\* check: the delivery of the first failed, the second was sent
C29_Witness ==
    /\ Len(outbox) = 2
    /\ outbox[1].email_type = EmailTypeDailyPrompt
    /\ outbox[1].status = EmailStatusFailed
    /\ outbox[2].email_type = EmailTypeDailyPrompt
    /\ outbox[2].status = EmailStatusSent
    /\ outbox[1].created_at = outbox[2].created_at
    /\ runs["scheduler"].pc = "idle"
    /\ runs["scheduler"].attempted = {1, 2}


(***************************************************************************)
(* the weekly summary job: cmd/scheduler/main.go                           *)
(***************************************************************************)

\* getWeekStart: the Monday of the week the clock is in, as a day (the first
\* day of the clock, 2024-01-01, is a Monday)
getWeekStart == Today - (Today % 7)

\* getAllVerifiedUsers: "Implementation needed", it returns no user and no error
getAllVerifiedUsers(us) == <<>>

\* getWeekEntries: "Implementation needed", it returns no entry and no error
getWeekEntries(es, userID) == {}

\* Service.SendWeeklySummary: the subject, and the body as the template with
\* its data (the week; the text of the language model is left out)
SendWeeklySummary(ob, dbOK, userID, recipientEmail, weekStart) ==
    QueueEmail(ob, dbOK, Some(userID), recipientEmail, EmailTypeWeeklySummary,
               "This is What I Did This Week", <<"weekly_summary", weekStart>>, Null)

\* the loop of sendWeeklySummaries over the users; failed holds the accounts
\* for which GenerateWeeklySummary or SendWeeklySummary returns an error
RECURSIVE QueueSummaries(_, _, _, _, _)
QueueSummaries(us, es, ob, selected, failed) ==
    IF Len(selected) = 0 THEN ob
    ELSE LET userID == selected[1]
             ob1 == IF getWeekEntries(es, userID) = {} \/ userID \in failed
                    THEN ob
                    ELSE SendWeeklySummary(ob, TRUE, userID, us[userID].email, getWeekStart)
         IN  QueueSummaries(us, es, ob1, Tail(selected), failed)

\* sendWeeklySummaries, which the scheduler runs every Friday at 16:30 UTC
sendWeeklySummaries ==
    /\ Today % 7 = 4
    /\ UTCHour(now) = 16
    /\ Len(outbox) < MaxMail
    /\ LET selected == getAllVerifiedUsers(users)
       IN  \E failed \in SUBSET {selected[i] : i \in 1..Len(selected)} :
              /\ outbox' = QueueSummaries(users, entries, outbox, selected, failed)
              /\ last' = [op |-> "sendWeeklySummaries", err |-> "",
                          log |-> IF failed = {} THEN "" ELSE "Failed to send weekly summary"]
    /\ UNCHANGED <<users, entries, now, runs, transport>>

\* a day passes, up to the Friday of the week
DayPasses ==
    /\ Today % 7 < 4
    /\ now' = now + 24
    /\ UNCHANGED <<users, entries, outbox, last, runs, transport>>

\* From Thursday 4 January 2024, 16:00 UTC, on: two verified accounts write
\* their entries of the day; on the Friday the weekly job runs
InitWeekly ==
    /\ now = 3 * 24 + 16
    /\ users = LET prefs == ParsedPreferences[IdOf(WelcomeReplyTimeFirst)].prefs
               IN  Enrolled(Enrolled(<<>>, Writers[1], <<"1","2","3","4","5","6">>, prefs),
                            Writers[2], <<"6","5","4","3","2","1">>, prefs)
    /\ entries = {}
    /\ outbox = <<>>
    /\ last = [op |-> "none", err |-> "", log |-> ""]
    /\ runs = [r \in Runs |-> IdleRun]
    /\ transport = NoTransport

NextWeekly ==
    \/ \E userID \in 1..Len(Writers), content \in EntryContents, projectTag \in ProjectTags :
          SaveEntry(userID, content, projectTag)
    \/ DayPasses
    \/ sendWeeklySummaries

SpecWeekly == InitWeekly /\ [][NextWeekly]_vars

\* the account has an entry for a day from the Monday to the Friday of the
\* week the clock is in
WroteThisWeek(userID) ==
    \E e \in entries :
        /\ e.user_id = userID
        /\ getWeekStart <= e.entry_date
        /\ e.entry_date <= getWeekStart + 4

\* the step enqueues a weekly summary for the account
SummaryEnqueued(userID) ==
    \E i \in (Len(outbox) + 1)..Len(outbox') :
        /\ outbox'[i].email_type = EmailTypeWeeklySummary
        /\ outbox'[i].user_id = Some(userID)

\* C30: a run of the weekly summary job enqueues a weekly_summary message for
\* every verified account that has an entry in the current Monday-to-Friday
\* window, and none for a verified account without one.
C30_SummaryForEveryWriterOfTheWeek ==
    [][(sendWeeklySummaries /\ last'.op = "sendWeeklySummaries" /\ last'.log = "")
          => \A u \in 1..Len(users) :
                users[u].is_verified => (SummaryEnqueued(u) <=> WroteThisWeek(u))]_vars

\* C30, the second half: a run of the weekly summary job enqueues no
\* weekly_summary message for an account without an entry in the window.
C30_NoSummaryWithoutEntry ==
    [][(sendWeeklySummaries /\ last'.op = "sendWeeklySummaries")
          => \A u \in 1..Len(users) : SummaryEnqueued(u) => WroteThisWeek(u)]_vars


(***************************************************************************)
(* the life of an account: signup, verification, pause, the hourly check   *)
(***************************************************************************)

\* who writes in this specification, and what: the first subscriber answers
\* the welcome mail, the second asks for a pause of two weeks
AccountHolders == {Subscribers[1], Subscribers[2]}
AccountMail ==
    {<<Subscribers[1], IdOf(WelcomeReplyTimeFirst)>>, <<Subscribers[2], IdOf(PauseReply)>>}

\* Two subscribers at 15:00 UTC of a winter day: the first has not answered
\* the welcome mail; the second, whose prompt hour is 16:00 in London, is
\* flagged as paused by a pause that is over.
InitAccounts ==
    /\ now = WinterAfternoon
    /\ users = Subscribed(Subscribed(<<>>, 1, "pending"), 2, "expired")
    /\ entries = {}
    /\ outbox = <<>>
    /\ last = [op |-> "none", err |-> "", log |-> ""]
    /\ runs = [r \in Runs |-> IdleRun]
    /\ transport = NoTransport

NextAccounts ==
    \/ sendDailyPrompts
    \/ Tick
    \/ \E mail \in AccountMail : HandleEmailReply(mail[1], mail[2])
    \/ \E emailAddr \in AccountHolders : HandleSignupRequest(emailAddr)

SpecAccounts == InitAccounts /\ [][NextAccounts]_vars

\* C31: the expiry of a pause is never written back.  A run of the hourly
\* check and the passing of time change no field of any account, so an account
\* whose pause has expired keeps is_paused = TRUE and its pause_until; and no
\* operation at all turns is_paused from TRUE to FALSE or removes an account.
C31_PauseExpiryNeverWrittenBack ==
    [][ /\ ((sendDailyPrompts /\ last'.op = "sendDailyPrompts") \/ now' # now)
           => users' = users
        /\ Len(users') >= Len(users)
        /\ \A u \in 1..Len(users) :
              users[u].is_paused => users'[u].is_paused ]_vars

\* the hourly check has prompted an account whose pause ended two hours before:
\* the account is still flagged as paused, with the pause_until of the pause
C31_Witness ==
    /\ last.op = "sendDailyPrompts"
    /\ last.err = ""
    /\ \E u \in 1..Len(users) :
          /\ users[u].is_paused
          /\ users[u].pause_until = Some(WinterAfternoon - 1)
          /\ \E i \in 1..Len(outbox) :
                /\ outbox[i].email_type = EmailTypeDailyPrompt
                /\ outbox[i].user_id = Some(u)
                /\ outbox[i].created_at = now


\* C32: an account only moves from unverified to verified.  No step turns
\* is_verified from TRUE to FALSE, removes an account or gives a row another
\* address; and HandleSignupRequest for an address whose account is verified
\* returns an error, changes no account and enqueues no message.
C32_VerifiedStaysVerified ==
    [][ /\ Len(users') >= Len(users)
        /\ \A u \in 1..Len(users) :
              /\ users'[u].email = users[u].email
              /\ users[u].is_verified => users'[u].is_verified
        /\ \A emailAddr \in AccountHolders :
              ( /\ last'.op = "HandleSignupRequest"
                /\ GetUserByEmail(users, emailAddr) # 0
                /\ users[GetUserByEmail(users, emailAddr)].is_verified
                /\ HandleSignupRequest(emailAddr) )
              => ( /\ last'.err # ""
                   /\ users' = users
                   /\ entries' = entries
                   /\ outbox' = outbox ) ]_vars

\* the first subscriber has answered the welcome mail and is verified, and a
\* signup request for a verified address has been turned down
C32_Witness ==
    /\ last.op = "HandleSignupRequest"
    /\ last.err = "user already exists and is verified"
    /\ users[1].is_verified
    /\ users[1].name = <<"A","d","a">>
    /\ users[1].verification_code = Null
    /\ users[2].is_verified


(***************************************************************************)
(* the order of the commands of one reply                                  *)
(***************************************************************************)

\* what the subscriber sends: the reply with the tags in mixed order, a plain
\* entry, a project with an entry
OrderedMail == {IdOf(MixedOrderReply), IdOf(EntryReply), IdOf(ProjectEntryReply)}

\* One verified account, whose project focus is "infra", at 15:00 UTC.
InitCommands ==
    /\ now = WinterAfternoon
    /\ users = Enrolled(<<>>, Subscribers[1], <<"1","2","3","4","5","6">>, PromptPreferences[1])
    /\ entries = {}
    /\ outbox = <<>>
    /\ last = [op |-> "none", err |-> "", log |-> ""]
    /\ runs = [r \in Runs |-> IdleRun]
    /\ transport = NoTransport

NextCommands ==
    \/ \E b \in OrderedMail : HandleEmailReply(Subscribers[1], b)
    \/ Tick

SpecCommands == InitCommands /\ [][NextCommands]_vars

\* the entry of the account and the day of the clock, in the tables after
\* the step
DaysEntryAfter(userID) ==
    {e \in entries' : e.user_id = userID /\ e.entry_date = Today}

\* C33: the commands of a reply are applied pause first, then project, then
\* entry, whatever their order in the text.  When the reply whose tags come
\* as entry, project, entry, pause is handled: if the project focus is
\* written, the pause has been written before it; if an entry is stored, the
\* pause and the project focus have been written before it and the entry
\* carries the project tag; and when every command has been applied the
\* entry of the day holds the text of the last entry tag.
C33_CommandsAppliedInParseOrder ==
    [][( /\ last'.op = "HandleEmailReply"
         /\ HandleEmailReply(Subscribers[1], IdOf(MixedOrderReply)) )
       => /\ users'[1].project_focus # users[1].project_focus
             => ( /\ users'[1].is_paused
                  /\ users'[1].pause_until = Some(now + 7 * 24) )
          /\ entries' # entries
             => ( /\ users'[1].is_paused
                  /\ users'[1].pause_until = Some(now + 7 * 24)
                  /\ users'[1].project_focus = Some(<<"o","p","s">>)
                  /\ \A e \in DaysEntryAfter(1) :
                        /\ e.project_tag = Some(<<"o","p","s">>)
                        /\ e.raw_content \in {<<"F","i","r","s","t">>, <<"S","e","c","o","n","d">>} )
          /\ last'.log = "Successfully processed email reply"
             => ( /\ users'[1].is_paused
                  /\ users'[1].project_focus = Some(<<"o","p","s">>)
                  /\ \E e \in DaysEntryAfter(1) : e.raw_content = <<"S","e","c","o","n","d">>
                  /\ \A e \in DaysEntryAfter(1) : e.raw_content = <<"S","e","c","o","n","d">> )]_vars

\* the reply with the tags in mixed order has been handled in full: the
\* account is paused for a week, its focus is "ops", and the only entry holds
\* the text of the second entry tag, tagged "ops"
C33_Witness ==
    /\ last.op = "HandleEmailReply"
    /\ last.log = "Successfully processed email reply"
    /\ users[1].pause_until = Some(now + 7 * 24)
    /\ users[1].project_focus = Some(<<"o","p","s">>)
    /\ \E e \in entries :
          /\ entries = {e}
          /\ e.raw_content = <<"S","e","c","o","n","d">>
          /\ e.project_tag = Some(<<"o","p","s">>)


(***************************************************************************)
(* signup, resend and the verification reply, statement by statement       *)
(***************************************************************************)

\* The requests for a code that may be in progress at once: each of the two
\* runs Service.HandleSignupRequest (called by the command line's "user
\* signup" and by the parser for a mail of an unknown sender) or the command
\* line's resendVerification.  "reply" is the parser at work on an answer to
\* the welcome mail.
Requesters == {"first", "second"}
RequestOps == {"HandleSignupRequest", "resendVerification"}

\* what the processes hold between two statements: the address, the row
\* GetUserByEmail returned (0 for none), the code read from it or generated
IdleRequest == [pc |-> "idle", op |-> "", email |-> "", user |-> 0, code |-> Null, body |-> 0]

\* HandleSignupRequest lines 31-38, resendVerification lines 370-382: the
\* SELECT of the account and the tests of its result
RequestRead(p, op, emailAddr) ==
    /\ runs[p].pc = "idle"
    /\ Len(outbox) < MaxMail
    /\ LET existingUser == GetUserByEmail(users, emailAddr)
       IN  \/ /\ last' = [op |-> op, log |-> "",
                          err |-> IF op = "HandleSignupRequest"
                                  THEN "failed to check existing user"
                                  ELSE "failed to get user"]
              /\ runs' = runs
           \/ /\ existingUser = 0
              /\ IF op = "resendVerification"
                 THEN /\ last' = [op |-> op, err |-> "user not found", log |-> ""]
                      /\ runs' = runs
                 ELSE /\ last' = last
                      /\ runs' = [runs EXCEPT ![p] = [IdleRequest EXCEPT
                                     !.pc = "write", !.op = op, !.email = emailAddr]]
           \/ /\ existingUser # 0
              /\ IF users[existingUser].is_verified
                 THEN /\ last' = [op |-> op, log |-> "",
                                  err |-> IF op = "HandleSignupRequest"
                                          THEN "user already exists and is verified"
                                          ELSE ""]
                      /\ runs' = runs
                 ELSE /\ last' = last
                      /\ runs' = [runs EXCEPT ![p] = [IdleRequest EXCEPT
                                     !.pc = "write", !.op = op, !.email = emailAddr,
                                     !.user = existingUser]]
    /\ UNCHANGED <<users, entries, outbox, now, transport>>

\* HandleSignupRequest lines 41-53, resendVerification lines 385-392: the
\* code is generated and written with an UPDATE of the row that was read, or
\* with an INSERT, which the unique index on email refuses when a row with
\* the address is there
RequestWrite(p) ==
    /\ runs[p].pc = "write"
    /\ \/ /\ users' = users
          /\ last' = [op |-> runs[p].op, log |-> "",
                      err |-> IF runs[p].op = "HandleSignupRequest"
                              THEN "failed to create/update user"
                              ELSE "failed to update verification code"]
          /\ runs' = [runs EXCEPT ![p] = IdleRequest]
       \/ \E verificationCode \in Codes :
             /\ IF runs[p].user # 0
                THEN users' = updateUserVerificationCode(users, runs[p].user, verificationCode)
                ELSE /\ GetUserByEmail(users, runs[p].email) = 0
                     /\ users' = createPendingUser(users, runs[p].email, verificationCode)
             /\ last' = last
             /\ runs' = [runs EXCEPT ![p].pc = "queue", ![p].code = Some(verificationCode)]
    /\ UNCHANGED <<entries, outbox, now, transport>>

\* HandleSignupRequest line 56, resendVerification lines 395-398
RequestQueue(p) ==
    /\ runs[p].pc = "queue"
    /\ \E queueOK \in BOOLEAN :
          /\ outbox' = SendWelcomeEmail(outbox, queueOK, runs[p].email, runs[p].code[1])
          /\ last' = [op |-> runs[p].op, err |-> QueueErr(queueOK), log |-> ""]
    /\ runs' = [runs EXCEPT ![p] = IdleRequest]
    /\ UNCHANGED <<users, entries, now, transport>>

\* HandleEmailReply lines 60-75 for an answer to the welcome mail: the SELECT
\* of the account, which is not verified
ReplyRead(senderEmail, b) ==
    /\ runs["reply"].pc = "idle"
    /\ Len(outbox) < MaxMail
    /\ LET user == GetUserByEmail(users, senderEmail)
       IN  /\ user # 0
           /\ ~users[user].is_verified
           /\ \/ /\ last' = [op |-> "HandleEmailReply", err |-> "failed to get user", log |-> ""]
                 /\ runs' = runs
              \/ /\ last' = last
                 /\ runs' = [runs EXCEPT !["reply"] = [IdleRequest EXCEPT
                                !.pc = "verify", !.op = "HandleEmailReply",
                                !.email = users[user].email, !.user = user,
                                !.code = users[user].verification_code, !.body = b]]
    /\ UNCHANGED <<users, entries, outbox, now, transport>>

\* handleVerificationReply on the row that was read
ReplyVerify ==
    /\ runs["reply"].pc = "verify"
    /\ LET user == runs["reply"]
           prefs == ParsedPreferences[user.body]
       IN  IF user.code = Null
           THEN /\ last' = [op |-> "HandleEmailReply", log |-> "",
                            err |-> "no verification code set for user"]
                /\ UNCHANGED <<users, outbox>>
           ELSE IF ~CodeFound[user.body][user.code[1]]
           THEN \E queueOK \in BOOLEAN :
                   /\ outbox' = SendClarificationRequest(outbox, queueOK, user.user,
                                                         user.email, ClarifyMissingCode)
                   /\ last' = [op |-> "HandleEmailReply", err |-> QueueErr(queueOK), log |-> ""]
                   /\ users' = users
           ELSE IF prefs.err # ""
           THEN \E queueOK \in BOOLEAN :
                   /\ outbox' = SendClarificationRequest(outbox, queueOK, user.user,
                                                         user.email, ClarifyPreferences)
                   /\ last' = [op |-> "HandleEmailReply", err |-> QueueErr(queueOK), log |-> ""]
                   /\ users' = users
           ELSE \/ /\ users' = verifyUser(users, user.user, prefs.prefs)
                   /\ last' = [op |-> "HandleEmailReply", err |-> "", log |-> ""]
                   /\ outbox' = outbox
                \/ /\ last' = [op |-> "HandleEmailReply", err |-> "verifyUser failed", log |-> ""]
                   /\ UNCHANGED <<users, outbox>>
    /\ runs' = [runs EXCEPT !["reply"] = IdleRequest]
    /\ UNCHANGED <<entries, now, transport>>

\* No account yet.  One address; the first requester signs up, the second
\* asks for the code to be sent again, and the answer to the welcome mail
\* holds the code 123456.
InitSignup ==
    /\ users = <<>>
    /\ entries = {}
    /\ outbox = <<>>
    /\ now = WinterAfternoon
    /\ last = [op |-> "none", err |-> "", log |-> ""]
    /\ runs = [p \in Requesters \cup {"reply"} |-> IdleRequest]
    /\ transport = NoTransport

NextSignup ==
    \/ RequestRead("first", "HandleSignupRequest", "ada@example.com")
    \/ RequestRead("second", "resendVerification", "ada@example.com")
    \/ \E p \in Requesters : RequestWrite(p)
    \/ \E p \in Requesters : RequestQueue(p)
    \/ ReplyRead("ada@example.com", IdOf(WelcomeReplyTimeFirst))
    \/ ReplyVerify

SpecSignup == InitSignup /\ [][NextSignup]_vars

\* C34 as stated: in every state, whatever way a signup or a resend request
\* and a verification reply for the same account interleave, an account that
\* is not verified has a verification code and a verified account has none.
C34_CodePresentIffUnverified ==
    \A u \in 1..Len(users) :
       users[u].is_verified <=> users[u].verification_code = Null


\* the verification messages enqueued for an address, by position
WelcomeMailsTo(emailAddr) ==
    {i \in 1..Len(outbox) :
        /\ outbox[i].email_type = EmailTypeVerification
        /\ outbox[i].recipient_email = emailAddr}

\* C35 as stated: once the signup and resend requests for an address that is
\* not verified have returned, however they interleaved, the verification
\* message enqueued last holds the code stored on the account; and a reply
\* verifies the account only if it holds the code stored on it at that time.
C35_NewestWelcomeCarriesStoredCode ==
    /\ []((\A p \in Requesters : runs[p].pc = "idle")
          => \A u \in 1..Len(users) :
                (~users[u].is_verified /\ WelcomeMailsTo(users[u].email) # {})
                => LET newest == CHOOSE i \in WelcomeMailsTo(users[u].email) :
                                    \A j \in WelcomeMailsTo(users[u].email) : j <= i
                   IN  /\ users[u].verification_code # Null
                       /\ outbox[newest].body_text
                             = RenderWelcomeEmail(users[u].verification_code[1]).body)
    /\ [][\A u \in 1..Len(users) :
             (~users[u].is_verified /\ users'[u].is_verified)
             => /\ users[u].verification_code # Null
                /\ CodeFound[runs["reply"].body][users[u].verification_code[1]]]_vars


(***************************************************************************)
(* signup requests for one address in two spellings                        *)
(***************************************************************************)
Addresses == {"ada@example.com", "Ada@example.com"}

\* strings.ToLower on the addresses of the model
FoldAddress(emailAddr) ==
    IF emailAddr = "Ada@example.com" THEN "ada@example.com" ELSE emailAddr

\* two requesters, each running HandleSignupRequest, for either spelling
NextAddresses ==
    \/ \E p \in Requesters, emailAddr \in Addresses :
          RequestRead(p, "HandleSignupRequest", emailAddr)
    \/ \E p \in Requesters : RequestWrite(p)
    \/ \E p \in Requesters : RequestQueue(p)

SpecAddresses == InitSignup /\ [][NextAddresses]_vars

\* C36 as stated: in every state there is at most one account for an
\* address, the addresses compared without regard to case; and a signup
\* request that finds, when it writes, an account for its address that was
\* not there when it read, creates no account and enqueues no welcome mail.
C36_OneAccountPerAddress ==
    /\ [](\A u, v \in 1..Len(users) :
             FoldAddress(users[u].email) = FoldAddress(users[v].email) => u = v)
    /\ [][\A p \in Requesters :
             ( /\ runs[p].pc = "write"
               /\ runs[p].user = 0
               /\ runs'[p] # runs[p]
               /\ \E u \in 1..Len(users) :
                     FoldAddress(users[u].email) = FoldAddress(runs[p].email) )
             => ( /\ users' = users
                  /\ runs'[p].pc = "idle" )]_vars

\* what the code keeps: at most one account for an address spelled the same
\* way, and a request that lost the race for that spelling stops at its write
C36_OneAccountPerSpelling ==
    /\ [](\A u, v \in 1..Len(users) : users[u].email = users[v].email => u = v)
    /\ [][\A p \in Requesters :
             ( /\ runs[p].pc = "write"
               /\ runs[p].user = 0
               /\ runs'[p] # runs[p]
               /\ \E u \in 1..Len(users) : users[u].email = runs[p].email )
             => ( /\ users' = users
                  /\ outbox' = outbox
                  /\ runs'[p].pc = "idle" )]_vars


(***************************************************************************)
(* the length of a pause                                                   *)
(***************************************************************************)

\* the pauses the subscriber asks for: two weeks, no day, 200000 days
PauseMail == {IdOf(PauseReply), IdOf(ZeroPauseReply), IdOf(LongPauseReply)}

NextPauses ==
    \/ \E b \in PauseMail : HandleEmailReply(Subscribers[1], b)
    \/ Tick

SpecPauses == InitCommands /\ [][NextPauses]_vars

\* C37 as stated: a step that handles an accepted pause command writes a
\* pause_until later than the time of processing, the duration of the command
\* being above zero whatever its number.
C37_AcceptedPauseEndsLater ==
    [][\A u \in 1..Len(users) :
          users'[u].pause_until # users[u].pause_until
          => users'[u].pause_until[1] > now]_vars

\* what the code keeps for a number from 1 up to 106751 days, the last whose
\* nanoseconds fit 64 bits: the pause ends later than it starts
C37_PauseOfTwoWeeksEndsLater ==
    [][(HandleEmailReply(Subscribers[1], IdOf(PauseReply))
          /\ users'[1].pause_until # users[1].pause_until)
       => users'[1].pause_until[1] > now]_vars


\* C38 as stated: in every state, overlapping runs of ProcessOutbox included,
\* the retry_count of a message is 0 while the message is pending or sent and
\* 1 when it is failed.
C38_RetryCountMatchesStatus ==
    \A i \in 1..Len(outbox) :
       /\ outbox[i].status \in {EmailStatusPending, EmailStatusSent}
          => outbox[i].retry_count = 0
       /\ outbox[i].status = EmailStatusFailed
          => outbox[i].retry_count = 1


(***************************************************************************)
(* the dispatcher at work on a backlog longer than a batch                 *)
(***************************************************************************)

\* one message more than a batch holds
BacklogSize == BatchLimit + 1

\* the outbox after n messages were enqueued, one an hour from hour 1 on
RECURSIVE Backlog(_)
Backlog(n) ==
    IF n = 0 THEN <<>>
    ELSE Append(Backlog(n - 1),
                [NewEmailLog(Null, "ada@example.com", EmailTypeVerification, "s", <<"b">>, Null)
                    EXCEPT !.created_at = n, !.updated_at = n])

\* The dispatcher starts on the backlog, no run in progress.
InitPolling ==
    /\ now = BacklogSize
    /\ users = <<>>
    /\ entries = {}
    /\ outbox = Backlog(BacklogSize)
    /\ last = [op |-> "none", err |-> "", log |-> ""]
    /\ runs = [r \in Runs |-> IdleRun]
    /\ transport = [sends |-> [i \in 1..BacklogSize |-> 0], accepted |-> {}]

\* The scheduler's job with the store available: the SELECT returns the rows
\* and the UPDATEs are applied.  The transport accepts a message or refuses
\* it.
NextPolling ==
    \/ /\ ProcessOutboxQuery("scheduler")
       /\ (\E i \in 1..Len(outbox) : IsDue(outbox[i])) => runs'["scheduler"].pc = "send"
    \/ sendEmail("scheduler")
    \/ markEmailSent("scheduler") /\ outbox' # outbox
    \/ markEmailFailed("scheduler") /\ outbox' # outbox

SpecPolling == InitPolling /\ [][NextPolling]_vars

\* The job is run every five minutes and a run goes through its rows: each
\* step is taken when it stays possible.
FairPolling ==
    /\ SpecPolling
    /\ WF_vars(ProcessOutboxQuery("scheduler")
                  /\ ((\E i \in 1..Len(outbox) : IsDue(outbox[i]))
                         => runs'["scheduler"].pc = "send"))
    /\ WF_vars(sendEmail("scheduler"))
    /\ WF_vars(markEmailSent("scheduler") /\ outbox' # outbox)
    /\ WF_vars(markEmailFailed("scheduler") /\ outbox' # outbox)

\* C39: with the outbox polled again and again and the store available, every
\* message that is pending and due ends sent or failed, the one behind a full
\* batch of older messages too.
C39_PendingDueEndsSentOrFailed ==
    \A i \in 1..BacklogSize :
       (i <= Len(outbox) /\ IsDue(outbox[i]))
       ~> (outbox[i].status \in {EmailStatusSent, EmailStatusFailed})

\* the message behind the batch has been sent by a second run, after a run
\* in which a message of the batch failed
C39_Witness ==
    /\ Len(outbox) = BacklogSize
    /\ outbox[BacklogSize].status = EmailStatusSent
    /\ outbox[1].status = EmailStatusFailed
    /\ \A i \in 1..BatchLimit : outbox[i].status \in {EmailStatusSent, EmailStatusFailed}
    /\ runs["scheduler"].attempted = {BacklogSize}

====
